---- MODULE Spec2Model ----
(***************************************************************************)
(* A model of the aufs inode operations of fs/aufs/i_op.c: the pin        *)
(* manager (au_pin_init, au_do_pin, au_pin_hdir_lock, au_unpin), the      *)
(* write-dir resolver (au_wr_dir, au_wr_dir_cpup), aufs_permission and    *)
(* aufs_lookup.                                                           *)
(***************************************************************************)
EXTENDS Integers, Sequences, FiniteSets, TLC

\* ---------------------------------------------------------------- bounds
NBranch == 3
MaxAttempts == 2
MaxEnv == 1
MaxCalls == 2
MaxGen == 1
MaxShimCalls == 2
MaxRelock == 1

Branches == 0..(NBranch - 1)
Tasks == {"t1", "t2"}
Dirs == {"d1", "d2"}
Targets == {"root", "e1", "e2"}

\* ------------------------------------------------------------- constants
\* lock subclasses for the lower inode (vfsub.h)
AuLsc_I_Begin == 5
AuLsc_I_PARENT == AuLsc_I_Begin + 1
AuLsc_I_PARENT2 == AuLsc_I_PARENT + 1
\* pin flags
AuPin_DI_LOCKED == "DI_LOCKED"
AuPin_MNT_WRITE == "MNT_WRITE"
PinFlagSets == SUBSET {AuPin_DI_LOCKED, AuPin_MNT_WRITE}

NULL == "NULL"
NoHandle == <<>>
NoMnt == -1
NoTask == "none"
\* errno values
EPERM == 1
ENOENT == 2
EIO == 5
ECHILD == 10
EAGAIN == 11
ENOMEM == 12
EACCES == 13
EBUSY == 16
ENOSPC == 28
EROFS == 30
EMLINK == 31
ENAMETOOLONG == 36

\* the busy/stale condition: -EBUSY for a caller in a process context
au_busy_or_stale == -EBUSY

\* ------------------------------------------------------------ pin state
VARIABLES
    pins,        \* per task: the stack of struct au_pin in use (innermost last)
    donePin,     \* per task: the pin most recently released or given up
    pc,          \* per task: where its au_do_pin / au_unpin sequence stands
    err,         \* per task: the value the last au_do_pin returned
    attempts,    \* per task: number of au_pin_init calls made
    di_rwsem,    \* logical directory -> task -> read locks held
    mnt_writers, \* branch -> task -> mount write-leases held
    i_rwsem,     \* real parent inode <<dir, branch>> -> [owner, subclass]
    d_count,     \* logical directory -> task -> dentry references held
    i_count,     \* real parent inode -> task -> inode references held
    hd_inode_ok, \* real parent dentry <<dir, branch>> still links the cached inode
    hd_moved,    \* target -> its real dentry was moved away from the real parent
    envLeft,     \* external events still allowed
    oops         \* misuse detected: unlock of a lock not held, count underflow

pinVars == <<pins, donePin, pc, err, attempts, di_rwsem, mnt_writers, i_rwsem,
             d_count, i_count, hd_inode_ok, hd_moved, envLeft, oops>>

\* --------------------------------------------------- write-dir resolver state
VARIABLES
    br_ro,       \* branch index -> the branch is read-only
    tree,        \* the entry and its ancestors: which branches hold them
    wr           \* the au_wr_dir call in progress or returned

wrVars == <<br_ro, tree, wr>>

VARIABLES
    sigen,       \* the superblock's generation
    ino,         \* the inode aufs_permission is asked about
    pdir,        \* the parent directory aufs_lookup looks up in
    op           \* the inode operation made: its arguments and result
permVars == <<sigen, ino, pdir, op>>

VARIABLES
    shim         \* the calls of the vfsub_* functions made: arguments, result
shimVars == <<shim>>

vars == <<pinVars, wrVars, permVars, shimVars>>

Handles == Dirs \X Branches

\* ------------------------------------------------- the fixed directory tree
IS_ROOT(dentry) == dentry = "root"

dget_parent_of(dentry) == IF dentry = "e1" THEN "d1" ELSE "d2"

\* the logical directory d1 has a real directory in every branch, d2 in every
\* branch but the last one
ParentInBranch(d, b) == d = "d1" \/ b < NBranch - 1

\* au_h_dptr(parent, bindex): the real parent dentry, or none
au_h_dptr_parent(d, b) == IF ParentInBranch(d, b) THEN <<d, b>> ELSE NoHandle

\* au_hi(d_inode(parent), bindex): the parent inode's slot for the branch
au_hi(d, b) == <<d, b>>

\* hdir->hi_inode: the cached real inode of a slot, or none
hi_inode(h) == IF ParentInBranch(h[1], h[2]) THEN h ELSE NoHandle

\* the targets e1 and e2 have a real dentry in branch 0 only
au_dbbot_target(dentry) == 0

au_h_dptr_target(dentry, b) == IF b = 0 THEN <<dentry, b>> ELSE NoHandle

\* d_inode(h_parent) compared with hdir->hi_inode
d_inode_matches(h, ok) == ok[h]

\* au_h_verify(h_dentry, udba, h_dir, h_parent, br): nonzero when the target's
\* real dentry is no longer a child of the real parent
au_h_verify(dentry, moved) == IF moved[dentry] THEN 1 ELSE 0

\* ------------------------------------------------------- kernel resources
\* The resources a pin acts on, gathered into one record so that the pin
\* routines can be written as functions from state to state.
Kernel == [di |-> di_rwsem, mnt |-> mnt_writers, il |-> i_rwsem,
           dc |-> d_count, ic |-> i_count, oops |-> oops]

Free == [owner |-> NoTask, lsc |-> 0]

Dec(f, x, t) ==
    IF f[x][t] > 0 THEN [f EXCEPT ![x][t] = @ - 1] ELSE f

Under(f, x, t, what) == IF f[x][t] > 0 THEN {} ELSE {what}

Log(st, ev) == [st EXCEPT !.p.log = Append(@, ev)]

di_read_lock(t, st, d) ==
    Log([st EXCEPT !.k.di[d][t] = @ + 1], "di_read_lock")

\* di_read_unlock(d, flags); a NULL dentry is dereferenced
di_read_unlock(t, st, d) ==
    IF d = NULL
    THEN Log([st EXCEPT !.k.oops = @ \cup {"di_read_unlock_null"}],
             "di_read_unlock")
    ELSE Log([st EXCEPT !.k.di = Dec(st.k.di, d, t),
                        !.k.oops = @ \cup Under(st.k.di, d, t, "di_read_unlock")],
             "di_read_unlock")

dget(t, st, d) == Log([st EXCEPT !.k.dc[d][t] = @ + 1], "dget")

\* dput(dentry) does nothing for a NULL dentry
dput(t, st, d) ==
    IF d = NULL THEN Log(st, "dput")
    ELSE Log([st EXCEPT !.k.dc = Dec(st.k.dc, d, t),
                        !.k.oops = @ \cup Under(st.k.dc, d, t, "dput")],
             "dput")

au_igrab(t, st, h) == Log([st EXCEPT !.k.ic[h][t] = @ + 1], "igrab")

\* iput(inode) does nothing for a NULL inode
iput(t, st, h) ==
    IF h = NoHandle THEN Log(st, "iput")
    ELSE Log([st EXCEPT !.k.ic = Dec(st.k.ic, h, t),
                        !.k.oops = @ \cup Under(st.k.ic, h, t, "iput")],
             "iput")

vfsub_mnt_want_write(t, st, b) ==
    Log([st EXCEPT !.k.mnt[b][t] = @ + 1], "mnt_want_write")

vfsub_mnt_drop_write(t, st, b) ==
    Log([st EXCEPT !.k.mnt = Dec(st.k.mnt, b, t),
                   !.k.oops = @ \cup Under(st.k.mnt, b, t, "mnt_drop_write")],
        "mnt_drop_write")

au_hn_inode_lock_nested(t, st, h, lsc) ==
    Log([st EXCEPT !.k.il[h] = [owner |-> t, lsc |-> lsc]], "inode_lock")

au_hn_inode_unlock(t, st, h) ==
    Log([st EXCEPT !.k.il[h] = IF @.owner = t THEN Free ELSE @,
                   !.k.oops = @ \cup (IF hi_inode(h) = NoHandle
                                      THEN {"inode_unlock_null"}
                                      ELSE IF st.k.il[h].owner = t THEN {}
                                      ELSE {"inode_unlock_unheld"})],
        "inode_unlock")

\* ------------------------------------------------------------ pin manager
\* au_pin_init
au_pin_init(dentry, bindex, lsc_di, lsc_hi, flags, t) ==
    [dentry |-> dentry, lsc_di |-> lsc_di, lsc_hi |-> lsc_hi, flags |-> flags,
     bindex |-> bindex, parent |-> NULL, hdir |-> NoHandle, h_mnt |-> NoMnt,
     h_dentry |-> NoHandle, h_parent |-> NoHandle, br |-> NoMnt, task |-> t,
     log |-> <<>>, step |-> "init", before |-> <<>>]

\* au_pin_hdir_unlock
au_pin_hdir_unlock_noop(t, st) == st

au_pin_hdir_unlock(t, st) ==
    IF st.p.hdir # NoHandle THEN au_hn_inode_unlock(t, st, st.p.hdir) ELSE st

\* au_pin_hdir_lock: the state after it and the value it returns
au_pin_hdir_lock_noident(t, st, ok, moved) ==
    IF st.p.hdir = NoHandle THEN [st |-> st, err |-> 0]
    ELSE LET s1 == au_hn_inode_lock_nested(t, st, st.p.hdir, st.p.lsc_hi)
         IN  IF st.p.h_dentry # NoHandle
             THEN [st |-> s1, err |-> au_h_verify(st.p.dentry, moved)]
             ELSE [st |-> s1, err |-> 0]

au_pin_hdir_lock_noverify(t, st, ok, moved) ==
    IF st.p.hdir = NoHandle THEN [st |-> st, err |-> 0]
    ELSE LET s1 == au_hn_inode_lock_nested(t, st, st.p.hdir, st.p.lsc_hi)
         IN  IF ~d_inode_matches(st.p.h_parent, ok)
             THEN [st |-> s1, err |-> -EBUSY]
             ELSE [st |-> s1, err |-> 0]

au_pin_hdir_lock(t, st, ok, moved) ==
    IF st.p.hdir = NoHandle THEN [st |-> st, err |-> 0]
    ELSE LET s1 == au_hn_inode_lock_nested(t, st, st.p.hdir, st.p.lsc_hi)
         IN  IF ~d_inode_matches(st.p.h_parent, ok)
             THEN [st |-> s1, err |-> -EBUSY]
             ELSE IF st.p.h_dentry # NoHandle
                  THEN [st |-> s1, err |-> au_h_verify(st.p.dentry, moved)]
                  ELSE [st |-> s1, err |-> 0]

\* the link count au_pin_hdir_relock reads from a pinned real dentry
NlinkStates == {"negative", "linked", "unlinked"}

\* the loop of au_pin_hdir_relock over h_dentry and h_parent: the first
\* positive one with no link left ends it with 1
RelockNlink(p, nl) ==
    IF p.h_dentry # NoHandle /\ nl.h_dentry = "unlinked" THEN 1
    ELSE IF p.h_parent # NoHandle /\ nl.h_parent = "unlinked" THEN 1
    ELSE 0

\* a relock that gives the lock back when it fails
au_pin_hdir_relock_drop(t, st, ok, moved, nl) ==
    LET r == au_pin_hdir_lock(t, st, ok, moved)
        e == IF r.err # 0 THEN r.err ELSE RelockNlink(r.st.p, nl)
    IN  [st |-> IF e # 0 THEN au_pin_hdir_unlock(t, r.st) ELSE r.st, err |-> e]

\* au_pin_hdir_relock: the state after it and the value it returns
au_pin_hdir_relock(t, st, ok, moved, nl) ==
    LET r == au_pin_hdir_lock(t, st, ok, moved)
    IN  IF r.err # 0 THEN r
        ELSE [st |-> r.st, err |-> RelockNlink(r.st.p, nl)]

\* au_unpin
au_unpin_lease_first(t, st) ==
    LET s1 == IF st.p.h_mnt # NoMnt /\ AuPin_MNT_WRITE \in st.p.flags
              THEN vfsub_mnt_drop_write(t, st, st.p.h_mnt) ELSE st
        s2 == IF s1.p.hdir # NoHandle THEN au_pin_hdir_unlock(t, s1) ELSE s1
    IN  IF s2.p.hdir = NoHandle THEN s2
        ELSE LET s3 == IF AuPin_DI_LOCKED \notin s2.p.flags
                       THEN di_read_unlock(t, s2, s2.p.parent) ELSE s2
                 s4 == iput(t, s3, hi_inode(s3.p.hdir))
                 s5 == dput(t, s4, s4.p.parent)
             IN  [s5 EXCEPT !.p.parent = NULL, !.p.hdir = NoHandle,
                            !.p.h_mnt = NoMnt]

au_unpin(t, st) ==
    LET s1 == IF st.p.hdir # NoHandle THEN au_pin_hdir_unlock(t, st) ELSE st
        s2 == IF s1.p.h_mnt # NoMnt /\ AuPin_MNT_WRITE \in s1.p.flags
              THEN vfsub_mnt_drop_write(t, s1, s1.p.h_mnt) ELSE s1
    IN  IF s2.p.hdir = NoHandle THEN s2
        ELSE LET s3 == IF AuPin_DI_LOCKED \notin s2.p.flags
                       THEN di_read_unlock(t, s2, s2.p.parent) ELSE s2
                 s4 == iput(t, s3, hi_inode(s3.p.hdir))
                 s5 == dput(t, s4, s4.p.parent)
             IN  [s5 EXCEPT !.p.parent = NULL, !.p.hdir = NoHandle,
                            !.p.h_mnt = NoMnt]

\* au_do_pin, first part: the root case, or the logical parent and the real
\* parent at the branch index, up to the test of what was found
DoPinBackOut(t, st) ==
    LET s1 == IF AuPin_DI_LOCKED \notin st.p.flags
              THEN di_read_unlock(t, st, st.p.parent) ELSE st
        s2 == dput(t, s1, s1.p.parent)
    IN  [s2 EXCEPT !.p.parent = NULL]

DoPinResolve(t, st) ==
    LET p0 == [st EXCEPT !.p.br = st.p.bindex]
    IN  IF IS_ROOT(p0.p.dentry)
        THEN [st |-> p0,
              next |-> IF AuPin_MNT_WRITE \in p0.p.flags THEN "mnt" ELSE "pinned"]
        ELSE
          LET p1 == [p0 EXCEPT !.p.h_dentry =
                        IF p0.p.bindex <= au_dbbot_target(p0.p.dentry)
                        THEN au_h_dptr_target(p0.p.dentry, p0.p.bindex)
                        ELSE NoHandle]
              par == dget_parent_of(p1.p.dentry)
              p2 == dget(t, [p1 EXCEPT !.p.parent = par], par)
              p3 == IF AuPin_DI_LOCKED \notin p2.p.flags
                    THEN di_read_lock(t, p2, par) ELSE p2
              p4 == [p3 EXCEPT !.p.h_parent = au_h_dptr_parent(par, p3.p.bindex),
                               !.p.hdir = au_hi(par, p3.p.bindex)]
          IN  IF \/ p4.p.hdir = NoHandle
                 \/ hi_inode(p4.p.hdir) = NoHandle
                 \/ p4.p.h_parent = NoHandle
              THEN [st |-> [DoPinBackOut(t, p4) EXCEPT !.p.step = "bind"],
                    next |-> "failed"]
              ELSE [st |-> p4,
                    next |-> IF AuPin_MNT_WRITE \in p4.p.flags
                             THEN "mnt" ELSE "lock"]

\* au_do_pin, the mount write-lease; granted tells whether mnt_want_write
\* succeeds
DoPinMntWrite_leak(t, st, granted) ==
    LET s0 == [st EXCEPT !.p.h_mnt = st.p.br]
    IN  IF granted
        THEN [st |-> vfsub_mnt_want_write(t, s0, s0.p.h_mnt),
              next |-> IF IS_ROOT(s0.p.dentry) THEN "pinned" ELSE "lock"]
        ELSE [st |-> [s0 EXCEPT !.p.flags = @ \ {AuPin_MNT_WRITE},
                                !.p.step = "mnt"],
              next |-> "failed"]

DoPinMntWrite_keepflag(t, st, granted) ==
    LET s0 == [st EXCEPT !.p.h_mnt = st.p.br]
    IN  IF granted
        THEN [st |-> vfsub_mnt_want_write(t, s0, s0.p.h_mnt),
              next |-> IF IS_ROOT(s0.p.dentry) THEN "pinned" ELSE "lock"]
        ELSE LET s1 == [s0 EXCEPT !.p.step = "mnt"]
             IN  [st |-> IF IS_ROOT(s1.p.dentry) THEN s1
                         ELSE DoPinBackOut(t, s1),
                  next |-> "failed"]

\* a lease step that asks again when the lease is refused
DoPinMntWrite_retry(t, st, granted) ==
    LET s0 == [st EXCEPT !.p.h_mnt = st.p.br]
    IN  IF granted
        THEN [st |-> vfsub_mnt_want_write(t, s0, s0.p.h_mnt),
              next |-> IF IS_ROOT(s0.p.dentry) THEN "pinned" ELSE "lock"]
        ELSE [st |-> [s0 EXCEPT !.p.step = "mnt"], next |-> "mnt"]

DoPinMntWrite(t, st, granted) ==
    LET s0 == [st EXCEPT !.p.h_mnt = st.p.br]
    IN  IF granted
        THEN [st |-> vfsub_mnt_want_write(t, s0, s0.p.h_mnt),
              next |-> IF IS_ROOT(s0.p.dentry) THEN "pinned" ELSE "lock"]
        ELSE LET s1 == [s0 EXCEPT !.p.flags = @ \ {AuPin_MNT_WRITE},
                                  !.p.step = "mnt"]
             IN  [st |-> IF IS_ROOT(s1.p.dentry) THEN s1
                         ELSE DoPinBackOut(t, s1),
                  next |-> "failed"]

\* au_do_pin, last part: the inode reference, the real parent's lock and the
\* verification, and au_unpin when the verification fails
DoPinLock(t, st, ok, moved) ==
    LET s1 == au_igrab(t, st, hi_inode(st.p.hdir))
        r == au_pin_hdir_lock(t, s1, ok, moved)
    IN  IF r.err = 0
        THEN [st |-> r.st, next |-> "pinned"]
        ELSE [st |-> [au_unpin(t, r.st) EXCEPT !.p.step = "verify"],
              next |-> "failed"]

\* ------------------------------------------------------------ the tasks
Top(t) == pins[t][Len(pins[t])]

St(t) == [p |-> Top(t), k |-> Kernel]

\* what a task holds: locks, leases and references
Holdings(t, k) ==
    [di |-> [d \in Dirs |-> k.di[d][t]],
     mnt |-> [b \in Branches |-> k.mnt[b][t]],
     il |-> {h \in Handles : k.il[h].owner = t},
     dc |-> [d \in Dirs |-> k.dc[d][t]],
     ic |-> [h \in Handles |-> k.ic[h][t]]]

SetKernel(k) ==
    /\ di_rwsem' = k.di
    /\ mnt_writers' = k.mnt
    /\ i_rwsem' = k.il
    /\ d_count' = k.dc
    /\ i_count' = k.ic
    /\ oops' = k.oops

\* the value au_do_pin returns when it ends in the given way
DoPinResult(next, e) ==
    IF next = "pinned" THEN 0 ELSE IF next = "failed" THEN au_busy_or_stale ELSE e

Commit(t, r) ==
    /\ pins' = [pins EXCEPT ![t][Len(pins[t])] = r.st.p]
    /\ SetKernel(r.st.k)
    /\ pc' = [pc EXCEPT ![t] = r.next]
    /\ err' = [err EXCEPT ![t] = DoPinResult(r.next, @)]

\* A caller starts a pin: it takes the logical parent's lock itself when it
\* passes DI_LOCKED, then au_pin_init.
PinBegin(t, dentry, b, flags, lsc_hi) ==
    LET d == dget_parent_of(dentry)
        di1 == IF AuPin_DI_LOCKED \in flags /\ ~IS_ROOT(dentry)
               THEN [di_rwsem EXCEPT ![d][t] = @ + 1] ELSE di_rwsem
        p == au_pin_init(dentry, b, "AuLsc_DI_PARENT", lsc_hi, flags, t)
    IN  /\ attempts' = [attempts EXCEPT ![t] = @ + 1]
        /\ di_rwsem' = di1
        /\ pins' = [pins EXCEPT ![t] = Append(@,
                       [p EXCEPT !.before =
                           Holdings(t, [Kernel EXCEPT !.di = di1])])]
        /\ pc' = [pc EXCEPT ![t] = "resolve"]
        /\ UNCHANGED <<donePin, err, mnt_writers, i_rwsem, d_count, i_count,
                       hd_inode_ok, hd_moved, envLeft, oops>>
        /\ UNCHANGED <<wrVars, permVars, shimVars>>

\* au_pin: one pin at a time; a later attempt repeats the first request
au_pin(t) ==
    /\ pc[t] = "idle"
    /\ Len(pins[t]) = 0
    /\ attempts[t] < MaxAttempts
    /\ \E dentry \in Targets, b \in Branches, flags \in PinFlagSets :
          /\ attempts[t] > 0 =>
                /\ dentry = donePin[t].dentry
                /\ b = donePin[t].bindex
                /\ (AuPin_DI_LOCKED \in flags) = donePin[t].di_locked
          /\ PinBegin(t, dentry, b, flags, AuLsc_I_PARENT2)

Resolve(t) ==
    /\ pc[t] = "resolve"
    /\ Commit(t, DoPinResolve(t, St(t)))
    /\ UNCHANGED <<donePin, attempts, hd_inode_ok, hd_moved, envLeft>>
    /\ UNCHANGED <<wrVars, permVars, shimVars>>

MntWrite(t) ==
    /\ pc[t] = "mnt"
    /\ \E granted \in BOOLEAN : Commit(t, DoPinMntWrite(t, St(t), granted))
    /\ UNCHANGED <<donePin, attempts, hd_inode_ok, hd_moved, envLeft>>
    /\ UNCHANGED <<wrVars, permVars, shimVars>>

\* the real parent's lock blocks while another holder has it
Lock(t) ==
    /\ pc[t] = "lock"
    /\ i_rwsem[Top(t).hdir].owner = NoTask
    /\ Commit(t, DoPinLock(t, St(t), hd_inode_ok, hd_moved))
    /\ UNCHANGED <<donePin, attempts, hd_inode_ok, hd_moved, envLeft>>
    /\ UNCHANGED <<wrVars, permVars, shimVars>>

Finished(p, e) ==
    [dentry |-> p.dentry, bindex |-> p.bindex,
     di_locked |-> AuPin_DI_LOCKED \in p.flags,
     mnt_write |-> AuPin_MNT_WRITE \in p.flags, log |-> p.log, before |-> p.before, step |-> p.step, err |-> e]

Pop(t, p) ==
    /\ pins' = [pins EXCEPT ![t] = SubSeq(@, 1, Len(@) - 1)]
    /\ donePin' = [donePin EXCEPT ![t] = Finished(p, err[t])]
    /\ pc' = [pc EXCEPT ![t] = "unpinned"]

Unpin(t) ==
    /\ pc[t] = "pinned"
    /\ Len(pins[t]) > 0
    /\ LET r == au_unpin(t, [St(t) EXCEPT !.p.log = <<>>])
       IN  /\ SetKernel(r.k)
           /\ Pop(t, [r.p EXCEPT !.log = Top(t).log \o <<"unpin">> \o r.p.log])
    /\ UNCHANGED <<err, attempts, hd_inode_ok, hd_moved, envLeft>>
    /\ UNCHANGED <<wrVars, permVars, shimVars>>

\* a caller whose pin failed gives the pin up
GiveUp(t) ==
    /\ pc[t] = "failed"
    /\ Pop(t, Top(t))
    /\ UNCHANGED <<err, attempts, di_rwsem, mnt_writers, i_rwsem, d_count,
                   i_count, hd_inode_ok, hd_moved, envLeft, oops>>
    /\ UNCHANGED <<wrVars, permVars, shimVars>>

\* the caller drops the logical parent's lock it took for DI_LOCKED and goes
\* on: to the pin it still holds, to another attempt, or to its end
CallerExit(t, again) ==
    /\ pc[t] = "unpinned"
    /\ LET p == donePin[t]
           d == dget_parent_of(p.dentry)
       IN  di_rwsem' = IF p.di_locked /\ ~IS_ROOT(p.dentry)
                       THEN Dec(di_rwsem, d, t) ELSE di_rwsem
    /\ pc' = [pc EXCEPT ![t] = IF Len(pins[t]) > 0 THEN "pinned"
                               ELSE IF again THEN "idle"
                               ELSE "done"]
    /\ UNCHANGED <<pins, donePin, err, attempts, mnt_writers, i_rwsem, d_count,
                   i_count, hd_inode_ok, hd_moved, envLeft, oops>>
    /\ UNCHANGED <<wrVars, permVars, shimVars>>

\* the branch's real parent directory is removed behind aufs's back
ExternalRemove ==
    /\ envLeft > 0
    /\ \E h \in Handles :
          /\ hd_inode_ok[h]
          /\ hd_inode_ok' = [hd_inode_ok EXCEPT ![h] = FALSE]
    /\ envLeft' = envLeft - 1
    /\ UNCHANGED <<pins, donePin, pc, err, attempts, di_rwsem, mnt_writers,
                   i_rwsem, d_count, i_count, hd_moved, oops>>
    /\ UNCHANGED <<wrVars, permVars, shimVars>>

\* the target's real dentry is renamed away from the real parent
ExternalMove ==
    /\ envLeft > 0
    /\ \E e \in Targets \ {"root"} :
          /\ ~hd_moved[e]
          /\ hd_moved' = [hd_moved EXCEPT ![e] = TRUE]
    /\ envLeft' = envLeft - 1
    /\ UNCHANGED <<pins, donePin, pc, err, attempts, di_rwsem, mnt_writers,
                   i_rwsem, d_count, i_count, hd_inode_ok, oops>>
    /\ UNCHANGED <<wrVars, permVars, shimVars>>

NoPin == [dentry |-> "root", bindex |-> 0, di_locked |-> FALSE,
          mnt_write |-> FALSE, log |-> <<>>,
          before |-> <<>>, step |-> "init", err |-> 0]

InitKernel ==
    /\ di_rwsem = [d \in Dirs |-> [t \in Tasks |-> 0]]
    /\ mnt_writers = [b \in Branches |-> [t \in Tasks |-> 0]]
    /\ i_rwsem = [h \in Handles |-> Free]
    /\ d_count = [d \in Dirs |-> [t \in Tasks |-> 0]]
    /\ i_count = [h \in Handles |-> [t \in Tasks |-> 0]]
    /\ hd_inode_ok = [h \in Handles |-> TRUE]
    /\ hd_moved = [e \in Targets \ {"root"} |-> FALSE]
    /\ oops = {}
    /\ pins = [t \in Tasks |-> <<>>]
    /\ donePin = [t \in Tasks |-> NoPin]
    /\ err = [t \in Tasks |-> 0]
    /\ attempts = [t \in Tasks |-> 0]

\* no vfsub_* function is called
ShimIdle == shim = <<>>

\* the inode operations at rest, for the specifications that do not run them
PermIdle ==
    /\ sigen = 0
    /\ ino = <<>>
    /\ pdir = <<>>
    /\ op = <<>>

\* the resolver at rest, for the specifications that do not run it
WrIdle ==
    /\ br_ro = [b \in Branches |-> FALSE]
    /\ tree = <<>>
    /\ wr = <<>>

\* one task pins, releases and pins again while the branches change under it
InitPin ==
    /\ InitKernel
    /\ pc = [t \in Tasks |-> IF t = "t1" THEN "idle" ELSE "done"]
    /\ envLeft = MaxEnv
    /\ WrIdle
    /\ PermIdle
    /\ ShimIdle

NextPin ==
    \/ \E t \in Tasks : au_pin(t)
    \/ \E t \in Tasks : Resolve(t)
    \/ \E t \in Tasks : MntWrite(t)
    \/ \E t \in Tasks : Lock(t)
    \/ \E t \in Tasks : Unpin(t)
    \/ \E t \in Tasks : GiveUp(t)
    \/ \E t \in Tasks : CallerExit(t, attempts[t] < MaxAttempts)
    \/ ExternalRemove
    \/ ExternalMove

SpecPin == InitPin /\ [][NextPin]_vars

\* --------------------------- a caller that releases more than it must
\* the holder of a pin calls au_unpin twice
UnpinTwice(t) ==
    /\ pc[t] = "pinned"
    /\ Len(pins[t]) > 0
    /\ \E r \in {au_unpin(t, au_unpin(t, [St(t) EXCEPT !.p.log = <<>>]))} :
          /\ SetKernel(r.k)
          /\ Pop(t, [r.p EXCEPT !.log = Top(t).log \o <<"unpin">> \o r.p.log])
    /\ UNCHANGED <<err, attempts, hd_inode_ok, hd_moved, envLeft>>
    /\ UNCHANGED <<wrVars, permVars, shimVars>>

\* a caller whose au_do_pin failed calls au_unpin on the pin all the same
UnpinFailed(t) ==
    /\ pc[t] = "failed"
    /\ \E r \in {au_unpin(t, [St(t) EXCEPT !.p.log = <<>>])} :
          /\ SetKernel(r.k)
          /\ Pop(t, [r.p EXCEPT !.log = Top(t).log \o <<"unpin">> \o r.p.log])
    /\ UNCHANGED <<err, attempts, hd_inode_ok, hd_moved, envLeft>>
    /\ UNCHANGED <<wrVars, permVars, shimVars>>

NextRelease ==
    \/ \E t \in Tasks : au_pin(t)
    \/ \E t \in Tasks : Resolve(t)
    \/ \E t \in Tasks : MntWrite(t)
    \/ \E t \in Tasks : Lock(t)
    \/ \E t \in Tasks : Unpin(t)
    \/ \E t \in Tasks : UnpinTwice(t)
    \/ \E t \in Tasks : GiveUp(t)
    \/ \E t \in Tasks : UnpinFailed(t)
    \/ \E t \in Tasks : CallerExit(t, attempts[t] < MaxAttempts)
    \/ ExternalRemove
    \/ ExternalMove

SpecRelease == InitPin /\ [][NextRelease]_vars

\* ------------------------------------ a caller that unlocks and relocks
\* how often the real parent's lock of the pin was given back so far
Unlocks(p) == Cardinality({k \in 1..Len(p.log) : p.log[k] = "inode_unlock"})

\* the holder of a pin calls au_pin_hdir_unlock to work without the lock
HdirUnlock(t) ==
    /\ pc[t] = "pinned"
    /\ Len(pins[t]) > 0
    /\ Unlocks(Top(t)) < MaxRelock
    /\ \E r \in {au_pin_hdir_unlock(t, St(t))} :
          /\ pins' = [pins EXCEPT ![t][Len(pins[t])] = r.p]
          /\ SetKernel(r.k)
    /\ pc' = [pc EXCEPT ![t] = "unlocked"]
    /\ UNCHANGED <<donePin, err, attempts, hd_inode_ok, hd_moved, envLeft>>
    /\ UNCHANGED <<wrVars, permVars, shimVars>>

\* and au_pin_hdir_relock to go on; whatever it returns the caller goes on
\* to au_unpin
HdirRelock(t) ==
    /\ pc[t] = "unlocked"
    /\ Top(t).hdir # NoHandle => i_rwsem[Top(t).hdir].owner = NoTask
    /\ \E nl \in [h_dentry : NlinkStates, h_parent : NlinkStates] :
          \E r \in {au_pin_hdir_relock(t, St(t), hd_inode_ok, hd_moved, nl)} :
              /\ pins' = [pins EXCEPT ![t][Len(pins[t])] = r.st.p]
              /\ SetKernel(r.st.k)
              /\ err' = [err EXCEPT ![t] = r.err]
    /\ pc' = [pc EXCEPT ![t] = "pinned"]
    /\ UNCHANGED <<donePin, attempts, hd_inode_ok, hd_moved, envLeft>>
    /\ UNCHANGED <<wrVars, permVars, shimVars>>

NextHold ==
    \/ \E t \in Tasks : au_pin(t)
    \/ \E t \in Tasks : Resolve(t)
    \/ \E t \in Tasks : MntWrite(t)
    \/ \E t \in Tasks : Lock(t)
    \/ \E t \in Tasks : HdirUnlock(t)
    \/ \E t \in Tasks : HdirRelock(t)
    \/ \E t \in Tasks : Unpin(t)
    \/ \E t \in Tasks : GiveUp(t)
    \/ \E t \in Tasks : CallerExit(t, attempts[t] < MaxAttempts)
    \/ ExternalRemove
    \/ ExternalMove

SpecHold == InitPin /\ [][NextHold]_vars

\* ------------------------------------------------------- claims on the pin
Running(t) == Len(pins[t]) > 0

NonRoot(t) == Running(t) /\ ~IS_ROOT(Top(t).dentry)

\* the real parent of the pin in progress
RealParent(t) == <<dget_parent_of(Top(t).dentry), Top(t).bindex>>

\* C2: whenever au_do_pin has returned an error, the task holds exactly what
\* it held before the call: the logical parent's read lock only if the caller
\* took it (DI_LOCKED), no mount write-lease, no real parent inode lock, and
\* no dentry or inode reference of the call.
C2_FailedPinHoldsNothing ==
    \A t \in Tasks :
        pc[t] = "failed" =>
            LET p == Top(t)
                h == Holdings(t, Kernel)
                d == dget_parent_of(p.dentry)
            IN  /\ err[t] = au_busy_or_stale
                /\ h.di = [x \in Dirs |->
                             IF AuPin_DI_LOCKED \in p.flags /\ ~IS_ROOT(p.dentry)
                                /\ x = d THEN 1 ELSE 0]
                /\ \A b \in Branches : h.mnt[b] = 0
                /\ h.il = {}
                /\ \A x \in Dirs : h.dc[x] = 0
                /\ \A x \in Handles : h.ic[x] = 0
                /\ h = p.before

\* a pin that failed the verification after the lock, holding a lease and the
\* logical parent's lock of its own
C2_Witness ==
    \E t \in Tasks :
        /\ pc[t] = "failed"
        /\ Top(t).step = "verify"
        /\ Top(t).flags = {AuPin_MNT_WRITE}

C2_WitnessMnt ==
    \E t \in Tasks :
        /\ pc[t] = "failed"
        /\ Top(t).step = "mnt"
        /\ ~IS_ROOT(Top(t).dentry)

C2_WitnessBind ==
    \E t \in Tasks :
        /\ pc[t] = "failed"
        /\ Top(t).step = "bind"
        /\ AuPin_DI_LOCKED \in Top(t).flags

\* the lock and reference events a successful non-root pin and its au_unpin
\* make, for the flags given
AcquireEvents(di_locked, mnt_write) ==
    <<"dget">>
    \o (IF di_locked THEN <<>> ELSE <<"di_read_lock">>)
    \o (IF mnt_write THEN <<"mnt_want_write">> ELSE <<>>)
    \o <<"igrab", "inode_lock">>

ReleaseEvents(di_locked, mnt_write) ==
    <<"inode_unlock">>
    \o (IF mnt_write THEN <<"mnt_drop_write">> ELSE <<>>)
    \o (IF di_locked THEN <<>> ELSE <<"di_read_unlock">>)
    \o <<"iput", "dput">>

\* C3: a successful non-root pin takes the logical parent's read lock (unless
\* DI_LOCKED), then the mount write-lease (if MNT_WRITE), then the real
\* parent's inode lock; au_unpin releases in the reverse order and drops the
\* references last; after both the task holds what it held before the pin.
C3_AcquireReleaseOrder ==
    \A t \in Tasks :
        (pc[t] = "unpinned" /\ donePin[t].err = 0 /\ ~IS_ROOT(donePin[t].dentry)) =>
            LET p == donePin[t]
            IN  /\ p.log = AcquireEvents(p.di_locked, p.mnt_write)
                           \o <<"unpin">>
                           \o ReleaseEvents(p.di_locked, p.mnt_write)
                /\ Holdings(t, Kernel) = p.before

C3_Witness ==
    \E t \in Tasks :
        /\ pc[t] = "unpinned"
        /\ donePin[t].err = 0
        /\ ~IS_ROOT(donePin[t].dentry)
        /\ donePin[t].mnt_write
        /\ ~donePin[t].di_locked

\* what a non-root pin needs to succeed, read from the branches themselves
PinConditions(dentry, b) ==
    LET d == dget_parent_of(dentry)
    IN  /\ au_h_dptr_parent(d, b) # NoHandle
        /\ hi_inode(au_hi(d, b)) # NoHandle
        /\ hd_inode_ok[<<d, b>>]
        /\ (b <= au_dbbot_target(dentry) /\ au_h_dptr_target(dentry, b) # NoHandle)
              => ~hd_moved[dentry]

\* C4: for a non-root target au_do_pin ends in success only if the logical
\* parent has a real parent dentry and a real inode at the branch index, the
\* cached inode is still the inode of the real parent dentry once the lock is
\* taken, and the target's real dentry there passes the verification; every
\* other end of au_do_pin is the busy/stale error.
C4_PinOnlyIfVerified ==
    [][\A t \in Tasks :
          (NonRoot(t) /\ pc[t] \in {"resolve", "mnt", "lock"}
             /\ pc'[t] \in {"pinned", "failed"}) =>
              /\ pc'[t] = "pinned" =>
                    /\ err'[t] = 0
                    /\ PinConditions(Top(t).dentry, Top(t).bindex)
              /\ pc'[t] = "failed" => err'[t] = au_busy_or_stale
              /\ (pc[t] = "lock" /\ ~PinConditions(Top(t).dentry, Top(t).bindex))
                    => pc'[t] = "failed"]_vars

C4_Witness ==
    \E t \in Tasks :
        /\ pc[t] = "pinned"
        /\ NonRoot(t)
        /\ Top(t).h_dentry # NoHandle
        /\ i_rwsem[RealParent(t)].owner = t

\* C5: the removal of the real parent while a pin is held leaves that pin
\* held and successful; the next attempt on the same target and branch fails
\* with busy/stale.
C5_StaleLinkage ==
    [][\A t \in Tasks :
          /\ (pc[t] = "pinned" /\ hd_inode_ok' # hd_inode_ok) =>
                /\ pc'[t] = "pinned"
                /\ err'[t] = 0
                /\ pins'[t] = pins[t]
                /\ Holdings(t, Kernel)' = Holdings(t, Kernel)
          /\ (NonRoot(t) /\ attempts[t] > 1 /\ donePin[t].err = 0
                /\ donePin[t].dentry = Top(t).dentry
                /\ donePin[t].bindex = Top(t).bindex
                /\ ~hd_inode_ok[RealParent(t)]
                /\ pc[t] = "lock" /\ pc'[t] # "lock") =>
                /\ pc'[t] = "failed"
                /\ err'[t] = au_busy_or_stale]_vars

\* the second attempt has failed after the first one succeeded
C5_Witness ==
    \E t \in Tasks :
        /\ pc[t] = "failed"
        /\ attempts[t] > 1
        /\ donePin[t].err = 0
        /\ Top(t).step = "verify"
        /\ ~hd_inode_ok[RealParent(t)]

\* ------------------------------------------- two pins held by one operation
\* The fixed order in which an operation that needs two real parents asks for
\* them: by logical directory, then by branch index.
Rank(h) == (IF h[1] = "d1" THEN 0 ELSE NBranch) + h[2]

AnyOrder(h1, h2) == h1 # h2

CanonicalOrder(h1, h2) == Rank(h1) < Rank(h2)

\* the first real parent of a cross-branch operation, under the first subclass
PinFirst(t) ==
    /\ pc[t] = "idle"
    /\ attempts[t] = 0
    /\ \E dentry \in Targets \ {"root"}, b \in Branches :
          PinBegin(t, dentry, b, {AuPin_MNT_WRITE}, AuLsc_I_PARENT)

\* the second real parent, under the second subclass, while the first is held
PinSecond(t) ==
    /\ pc[t] = "pinned"
    /\ Len(pins[t]) = 1
    /\ attempts[t] = 1
    /\ \E dentry \in Targets \ {"root"}, b \in Branches :
          /\ CanonicalOrder(Top(t).hdir, <<dget_parent_of(dentry), b>>)
          /\ PinBegin(t, dentry, b, {AuPin_MNT_WRITE}, AuLsc_I_PARENT2)

InitLock ==
    /\ InitKernel
    /\ pc = [t \in Tasks |-> "idle"]
    /\ envLeft = 0
    /\ WrIdle
    /\ PermIdle
    /\ ShimIdle

NextLock ==
    \/ \E t \in Tasks : PinFirst(t)
    \/ \E t \in Tasks : PinSecond(t)
    \/ \E t \in Tasks : Resolve(t)
    \/ \E t \in Tasks : MntWrite(t)
    \/ \E t \in Tasks : Lock(t)
    \/ \E t \in Tasks : Unpin(t)
    \/ \E t \in Tasks : GiveUp(t)
    \/ \E t \in Tasks : CallerExit(t, FALSE)

SpecLock == InitLock /\ [][NextLock]_vars

\* a task that waits for a real parent's lock another task holds
Waits(t, u) ==
    /\ pc[t] = "lock"
    /\ u # t
    /\ i_rwsem[Top(t).hdir].owner = u

\* a task whose next step is the real parent's lock, held by someone
Blocked(t) == pc[t] = "lock" /\ i_rwsem[Top(t).hdir].owner # NoTask

\* every other unfinished position has a step that can be taken at once
CanStep(t) == pc[t] # "done" /\ ~Blocked(t)

AuWrDir_ADD_ENTRY == "ADD_ENTRY"
AuWrDir_ISDIR == "ISDIR"
AuWrDir_TMPFILE == "TMPFILE"
WrDirFlagSets == SUBSET {AuWrDir_ADD_ENTRY, AuWrDir_ISDIR, AuWrDir_TMPFILE}

MinOf(S) == CHOOSE x \in S : \A y \in S : x <= y
MaxOf(S) == CHOOSE x \in S : \A y \in S : y <= x

\* the branches at which the entry has a real dentry, positive or negative
Occupied(e) == {b \in Branches : e.h[b] # "none"}

au_dbtop(e) == e.btop
au_dbbot(e) == e.bbot
d_really_is_negative(e) == ~e.positive
au_h_dptr(e, b) == IF e.btop < 0 \/ b < e.btop THEN "none" ELSE e.h[b]
au_set_h_dptr(e, b, v) == [e EXCEPT !.h[b] = v]
au_set_dbtop(e, b) == [e EXCEPT !.btop = b]
au_set_dbbot(e, b) == [e EXCEPT !.bbot = b]

\* au_update_dbrange(dentry, do_put_zero = 0): the range is recomputed from the
\* real dentries the entry has
au_update_dbrange(e) ==
    IF e.btop < 0 THEN e
    ELSE IF \A b \in e.btop..e.bbot : e.h[b] = "none"
    THEN [e EXCEPT !.btop = -1, !.bbot = -1]
    ELSE [e EXCEPT !.btop = MinOf({b \in e.btop..e.bbot : e.h[b] # "none"}),
                   !.bbot = MaxOf({b \in 0..e.bbot : e.h[b] # "none"})]

\* a lookup that stores the real dentry and leaves the range alone
au_lkup_neg_norange(e, b) ==
    IF e.h[b] = "pos" THEN [ent |-> e, err |-> -EIO]
    ELSE [ent |-> [e EXCEPT !.h[b] = "neg"], err |-> 0]

\* au_lkup_neg(dentry, bindex, wh = 0): looks the name up in the branch; a real
\* object there is an I/O error, a negative real dentry is stored and the
\* range widened to hold it
au_lkup_neg(e, b) ==
    IF e.h[b] = "pos" THEN [ent |-> e, err |-> -EIO]
    ELSE [ent |-> [e EXCEPT !.btop = IF b < @ THEN b ELSE @,
                            !.bbot = IF @ < b THEN b ELSE @,
                            !.h[b] = "neg"],
          err |-> 0]

\* au_test_ro(sb, bindex, inode)
au_test_ro(ro, b) == ro[b]

\* AuWbrCopyup: the first writable branch from the entry's top towards
\* branch 0, or the read-only-filesystem error
AuWbrCopyup(ro, btop) ==
    LET cand == {b \in 0..btop : ~ro[b]}
    IN  IF cand = {} THEN -EROFS ELSE MaxOf(cand)

\* au_cpup_dirs / au_cpdown_dirs(dentry, bcpup): make the missing ancestors in
\* the branch, the outer one first; the creation numbered fail_at fails and
\* what was made before it stays
au_cp_dirs(tr, b, fail_at, name) ==
    IF b \in tr.gp
    THEN IF fail_at = 1
         THEN [tree |-> tr, err |-> -ENOSPC, log |-> <<name>>, bug |-> FALSE]
         ELSE [tree |-> [tr EXCEPT !.par = @ \cup {b}], err |-> 0,
               log |-> <<name, "mkdir">>, bug |-> FALSE]
    ELSE IF fail_at = 1
         THEN [tree |-> tr, err |-> -ENOSPC, log |-> <<name>>, bug |-> FALSE]
         ELSE IF fail_at = 2
         THEN [tree |-> [tr EXCEPT !.gp = @ \cup {b}], err |-> -ENOSPC,
               log |-> <<name, "mkdir">>, bug |-> FALSE]
         ELSE [tree |-> [tr EXCEPT !.gp = @ \cup {b}, !.par = @ \cup {b}],
               err |-> 0, log |-> <<name, "mkdir", "mkdir">>, bug |-> FALSE]

\* a copy step that takes the downward routine whatever the direction is
CpupParent_down(tr, bcpup, btop, fail_at) ==
    IF bcpup \in tr.par
    THEN [tree |-> tr, err |-> 0, log |-> <<>>, bug |-> FALSE]
    ELSE IF btop = bcpup
    THEN [tree |-> tr, err |-> 0, log |-> <<"BUG">>, bug |-> TRUE]
    ELSE au_cp_dirs(tr, bcpup, fail_at, "au_cpdown_dirs")

\* au_wr_dir_cpup, the parent: nothing to do when it is in the branch already
CpupParent(tr, bcpup, btop, fail_at) ==
    IF bcpup \in tr.par
    THEN [tree |-> tr, err |-> 0, log |-> <<>>, bug |-> FALSE]
    ELSE IF btop > bcpup THEN au_cp_dirs(tr, bcpup, fail_at, "au_cpup_dirs")
    ELSE IF btop < bcpup THEN au_cp_dirs(tr, bcpup, fail_at, "au_cpdown_dirs")
    ELSE [tree |-> tr, err |-> 0, log |-> <<"BUG">>, bug |-> TRUE]

\* au_wr_dir_cpup, after the negative lookup r of the leaf in the branch
CpupLeafDone(cp, btop, r) ==
    [tree |-> [cp.tree EXCEPT !.ent =
                  IF r.err # 0 THEN r.ent
                  ELSE au_update_dbrange(
                           IF d_really_is_negative(r.ent)
                           THEN au_set_h_dptr(r.ent, btop, "none") ELSE r.ent)],
     err |-> r.err,
     log |-> cp.log \o <<"inode_lock_shared_nested", "au_lkup_neg",
                         "inode_unlock_shared">>,
     bug |-> FALSE]

\* a copy step that never looks the leaf up
CpupLeaf_skip(cp, add_entry, tmpfile, bcpup, btop) == cp

\* a copy step that looks the leaf up for a tmpfile too
CpupLeaf_tmpfile(cp, add_entry, tmpfile, bcpup, btop) ==
    IF cp.err = 0 /\ ~cp.bug /\ add_entry
    THEN CpupLeafDone(cp, btop, au_lkup_neg(cp.tree.ent, bcpup))
    ELSE cp

\* au_wr_dir_cpup, the leaf, given the outcome cp of the parent's copy
CpupLeaf(cp, add_entry, tmpfile, bcpup, btop) ==
    IF cp.err = 0 /\ ~cp.bug /\ add_entry /\ ~tmpfile
    THEN CpupLeafDone(cp, btop, au_lkup_neg(cp.tree.ent, bcpup))
    ELSE cp

CpupReturn(leaf, add_entry, bcpup) ==
    [tree |-> leaf.tree,
     err |-> IF leaf.err = 0 THEN bcpup ELSE leaf.err,
     log |-> (IF add_entry THEN <<"IMustLock">> ELSE <<"di_write_lock_parent">>)
             \o leaf.log
             \o (IF add_entry THEN <<>> ELSE <<"di_write_unlock">>),
     bug |-> leaf.bug]

\* a copy step that creates the parent although the branch has it
au_wr_dir_cpup_always(tr, add_entry, tmpfile, bcpup, btop, fail_at) ==
    CpupReturn(CpupLeaf(au_cp_dirs(tr, bcpup, fail_at, "au_cpup_dirs"),
                        add_entry, tmpfile, bcpup, btop),
               add_entry, bcpup)

au_wr_dir_cpup(tr, add_entry, tmpfile, bcpup, btop, fail_at) ==
    CpupReturn(CpupLeaf(CpupParent(tr, bcpup, btop, fail_at),
                        add_entry, tmpfile, bcpup, btop),
               add_entry, bcpup)

WrAddEntry(a) == a.flags \cap {AuWrDir_ADD_ENTRY, AuWrDir_TMPFILE} # {}

\* a fallback taken only when no branch was chosen, not for a read-only one
WrDirPolicy_keepro(ro, btop, add_entry, c1) ==
    IF c1.b < 0
    THEN [b |-> AuWbrCopyup(ro, btop),
          log |-> c1.log \o <<"AuWbrCopyup">>, bug |-> FALSE]
    ELSE [b |-> c1.b, log |-> c1.log, bug |-> FALSE]

\* a fallback that keeps the parent's read lock after asking the policy
WrDirPolicy_holdread(ro, btop, add_entry, c1) ==
    IF c1.b < 0 \/ au_test_ro(ro, c1.b)
    THEN [b |-> AuWbrCopyup(ro, btop),
          log |-> c1.log \o
                  (IF add_entry THEN <<"AuWbrCopyup">>
                   ELSE <<"di_read_lock_parent", "AuWbrCopyup">>),
          bug |-> FALSE]
    ELSE [b |-> c1.b, log |-> c1.log, bug |-> FALSE]

\* au_wr_dir without a forced branch: the first choice c1 of the branch is
\* replaced by the copy-up policy's when it is an error or read-only
WrDirPolicy(ro, btop, add_entry, c1) ==
    IF c1.b < 0 \/ au_test_ro(ro, c1.b)
    THEN [b |-> AuWbrCopyup(ro, btop),
          log |-> c1.log \o
                  (IF add_entry THEN <<"AuWbrCopyup">>
                   ELSE <<"di_read_lock_parent", "AuWbrCopyup", "di_read_unlock">>),
          bug |-> FALSE]
    ELSE [b |-> c1.b, log |-> c1.log, bug |-> FALSE]

\* a choice that takes the source's top whatever the entry's top is
WrDirTarget_srcalways(ro, e, a) ==
    IF a.force < 0 /\ a.src >= 0
    THEN WrDirPolicy(ro, au_dbtop(e), WrAddEntry(a),
                     [b |-> a.src, log |-> <<"au_dbtop(src)">>])
    ELSE IF a.force < 0
    THEN WrDirPolicy(ro, au_dbtop(e), WrAddEntry(a),
                     IF WrAddEntry(a)
                     THEN [b |-> a.create, log |-> <<"AuWbrCreate">>]
                     ELSE [b |-> au_dbtop(e), log |-> <<>>])
    ELSE [b |-> a.force, log |-> <<"force_btgt">>,
          bug |-> a.debug /\ au_test_ro(ro, a.force)]

\* a choice that asks the create policy without the directory flag
WrDirTarget_nodir(ro, e, a) ==
    IF a.force < 0
    THEN WrDirPolicy(ro, au_dbtop(e), WrAddEntry(a),
             IF a.src >= 0
             THEN [b |-> IF a.src < au_dbtop(e) THEN a.src ELSE au_dbtop(e),
                   log |-> <<"au_dbtop(src)">>]
             ELSE IF WrAddEntry(a)
             THEN [b |-> a.create, log |-> <<"AuWbrCreate">>]
             ELSE [b |-> au_dbtop(e), log |-> <<>>])
    ELSE [b |-> a.force, log |-> <<"force_btgt">>,
          bug |-> a.debug /\ au_test_ro(ro, a.force)]

\* a choice that sends a forced read-only branch to the copy-up policy
WrDirTarget_forcepolicy(ro, e, a) ==
    IF a.force < 0 \/ au_test_ro(ro, a.force)
    THEN WrDirPolicy(ro, au_dbtop(e), WrAddEntry(a),
                     [b |-> IF a.force < 0 THEN a.create ELSE a.force,
                      log |-> <<>>])
    ELSE [b |-> a.force, log |-> <<"force_btgt">>, bug |-> FALSE]

\* au_wr_dir, first part: the branch to use.  a.force is args->force_btgt,
\* a.src the source entry's top (negative: no source entry), a.create the
\* answer of the create policy, a.debug whether AuDebugOn is BUG_ON.
WrDirTarget(ro, e, a) ==
    IF a.force < 0
    THEN WrDirPolicy(ro, au_dbtop(e), WrAddEntry(a),
             IF a.src >= 0
             THEN [b |-> IF a.src < au_dbtop(e) THEN a.src ELSE au_dbtop(e),
                   log |-> <<"au_dbtop(src)">>]
             ELSE IF WrAddEntry(a)
             THEN [b |-> a.create,
                   log |-> <<IF AuWrDir_ISDIR \in a.flags
                             THEN "AuWbrCreate(DIR)" ELSE "AuWbrCreate">>]
             ELSE [b |-> au_dbtop(e), log |-> <<>>])
    ELSE [b |-> a.force, log |-> <<"force_btgt">>,
          bug |-> a.debug /\ au_test_ro(ro, a.force)]

\* a negative entry that is moved although the copy step failed
WrDirMoved_onerror(r, btop, bcpup) ==
    IF d_really_is_negative(r.tree.ent)
    THEN au_set_dbbot(au_set_dbtop(au_set_h_dptr(r.tree.ent, btop, "none"),
                                   bcpup), bcpup)
    ELSE r.tree.ent

\* a negative entry that is left where it was
WrDirMoved_stay(r, btop, bcpup) == r.tree.ent

\* au_wr_dir, after the copy step r: a negative entry is moved to the branch
WrDirMoved(r, btop, bcpup) ==
    IF r.err >= 0 /\ d_really_is_negative(r.tree.ent)
    THEN au_set_dbbot(au_set_dbtop(au_set_h_dptr(r.tree.ent, btop, "none"),
                                   bcpup), bcpup)
    ELSE r.tree.ent

WrDirChecked(r, e1, a, bcpup, head, bug) ==
    [tree |-> [r.tree EXCEPT !.ent = e1], ret |-> r.err,
     log |-> head \o r.log \o (IF bug THEN <<"BUG">> ELSE <<"dput">>),
     bug |-> bug]

WrDirCopied(r, e1, a, bcpup, head) ==
    WrDirChecked(r, e1, a, bcpup, head,
        \/ r.bug
        \/ /\ r.err >= 0 /\ a.debug /\ WrAddEntry(a)
           /\ AuWrDir_TMPFILE \notin a.flags
           /\ au_h_dptr(e1, bcpup) = "none")

WrDirCopy(r, a, btop, bcpup, head) ==
    WrDirCopied(r, WrDirMoved(r, btop, bcpup), a, bcpup, head)

\* a second part that runs the copy step for the entry's own top too
WrDirOn_nofast(tr, a, tg, btop, head) ==
    IF tg.bug
    THEN [tree |-> tr, ret |-> tg.b, log |-> head \o <<"BUG">>, bug |-> TRUE]
    ELSE IF tg.b < 0
    THEN [tree |-> tr, ret |-> tg.b, log |-> head \o <<"dput">>, bug |-> FALSE]
    ELSE WrDirCopy(au_wr_dir_cpup(tr, WrAddEntry(a), AuWrDir_TMPFILE \in a.flags,
                                  tg.b, btop, a.fail_at),
                   a, btop, tg.b, head)

\* au_wr_dir, second part, given the branch chosen
WrDirOn(tr, a, tg, btop, head) ==
    IF tg.bug
    THEN [tree |-> tr, ret |-> tg.b, log |-> head \o <<"BUG">>, bug |-> TRUE]
    ELSE IF tg.b < 0 \/ tg.b = btop
    THEN [tree |-> tr, ret |-> tg.b, log |-> head \o <<"dput">>, bug |-> FALSE]
    ELSE WrDirCopy(au_wr_dir_cpup(tr, WrAddEntry(a), AuWrDir_TMPFILE \in a.flags,
                                  tg.b, btop, a.fail_at),
                   a, btop, tg.b, head)

WrDirWith(tr, a, tg) ==
    WrDirOn(tr, a, tg, au_dbtop(tr.ent), <<"dget_parent">> \o tg.log)

\* au_wr_dir: the tree after the call, the value returned, the calls made
au_wr_dir(ro, tr, a) == WrDirWith(tr, a, WrDirTarget(ro, tr.ent, a))

\* the arguments and outside answers of one call
WrArgs ==
    [flags : WrDirFlagSets, force : {-1} \cup Branches, src : {-1} \cup Branches,
     create : {-EROFS} \cup Branches, fail_at : 0..2, debug : BOOLEAN]

\* answers nobody asks for are left at a fixed value
WrArgsUsed(ro, a) ==
    /\ a.force >= 0 => a.src = -1 /\ a.create = 0
    /\ a.force < 0 => a.debug
    /\ a.force >= 0 /\ ~ro[a.force] => a.debug
    /\ a.src >= 0 => a.create = 0
    /\ a.flags \cap {AuWrDir_ADD_ENTRY, AuWrDir_TMPFILE} = {} =>
          a.create = 0 /\ AuWrDir_ISDIR \notin a.flags

NoCall == [ret |-> 0, copied |-> FALSE]

\* the call made the copy-up or the copy-down routine run
Materialized(log) ==
    \E i \in 1..Len(log) : log[i] \in {"au_cpup_dirs", "au_cpdown_dirs"}

WrDirCall ==
    /\ wr.pc = "ready"
    /\ \E a \in WrArgs :
          /\ WrArgsUsed(br_ro, a)
          /\ \E r \in {au_wr_dir(br_ro, tree, a)} :
                 /\ tree' = r.tree
                 /\ wr' = [pc |-> IF r.bug THEN "oops" ELSE "returned",
                           calls |-> 1, args |-> a, before |-> tree,
                           ret |-> r.ret, log |-> r.log, prev |-> NoCall]
    /\ UNCHANGED <<br_ro, pinVars, permVars, shimVars>>

\* the same call once more, with the same answers from outside
WrDirAgain ==
    /\ wr.pc = "returned"
    /\ wr.calls < MaxCalls
    /\ \E r \in {au_wr_dir(br_ro, tree, wr.args)} :
           /\ tree' = r.tree
           /\ wr' = [wr EXCEPT !.pc = IF r.bug THEN "oops" ELSE "returned",
                               !.calls = @ + 1, !.before = tree,
                               !.ret = r.ret, !.log = r.log,
                               !.prev = [ret |-> wr.ret,
                                         copied |-> \/ wr.prev.copied
                                                    \/ /\ wr.ret >= 0
                                                       /\ Materialized(wr.log)]]
    /\ UNCHANGED <<br_ro, pinVars, permVars, shimVars>>

\* the entries a lookup leaves: a negative entry has one negative real dentry
\* at the parent's top branch; a positive one has real objects in some of the
\* parent's branches
Entries(par) ==
    {[h |-> [b \in Branches |-> IF b = MinOf(par) THEN "neg" ELSE "none"],
      btop |-> MinOf(par), bbot |-> MinOf(par), positive |-> FALSE]}
    \cup
    {[h |-> [b \in Branches |-> IF b \in occ THEN "pos" ELSE "none"],
      btop |-> MinOf(occ), bbot |-> MaxOf(occ), positive |-> TRUE] :
        occ \in SUBSET par \ {{}}}

Trees ==
    UNION {{[gp |-> gp, par |-> par, ent |-> e] : e \in Entries(par)} :
             <<gp, par>> \in {x \in (SUBSET Branches) \X (SUBSET Branches) :
                                x[2] # {} /\ x[2] \subseteq x[1]}}

PinIdle ==
    /\ InitKernel
    /\ pc = [t \in Tasks |-> "done"]
    /\ envLeft = 0

InitWr ==
    /\ PinIdle
    /\ PermIdle
    /\ ShimIdle
    /\ br_ro \in [Branches -> BOOLEAN]
    /\ tree \in Trees
    /\ wr = [pc |-> "ready", calls |-> 0, args |-> <<>>, before |-> <<>>,
             ret |-> 0, log |-> <<>>, prev |-> NoCall]

NextWr ==
    \/ WrDirCall
    \/ WrDirAgain

SpecWr == InitWr /\ [][NextWr]_vars

\* ------------------------------------------------- claims on the resolver
WrReturned == wr.pc = "returned"
WrSucceeded == WrReturned /\ wr.ret >= 0
WrLeafLooked ==
    AuWrDir_ADD_ENTRY \in wr.args.flags /\ AuWrDir_TMPFILE \notin wr.args.flags
NoGaps(e) == \A b \in e.btop..e.bbot : e.h[b] # "none"
SameRange(e, f) == e.btop = f.btop /\ e.bbot = f.bbot

\* C7 as stated: after a successful au_wr_dir the entry's top is at or above
\* its top before the call, and a range without gaps stays without gaps
C7_Original ==
    WrSucceeded =>
        /\ tree.ent.btop <= wr.before.ent.btop
        /\ NoGaps(wr.before.ent) => NoGaps(tree.ent)

\* C7: after a successful au_wr_dir the entry's top is at or above its top
\* before the call whenever the branch returned is; a positive entry's top
\* never gets deeper; a negative entry sent to another branch, deeper ones
\* included, has exactly that branch as its range; and every real dentry the
\* entry holds lies inside the range
C7_RangeAfterWrDir ==
    WrSucceeded =>
        /\ wr.ret <= wr.before.ent.btop => tree.ent.btop <= wr.before.ent.btop
        /\ wr.before.ent.positive => tree.ent.btop <= wr.before.ent.btop
        /\ ~wr.before.ent.positive /\ wr.ret # wr.before.ent.btop =>
              tree.ent.btop = wr.ret /\ tree.ent.bbot = wr.ret
        /\ Occupied(tree.ent) \subseteq tree.ent.btop..tree.ent.bbot

\* a negative entry copied down: its top is deeper than before
C7_Witness ==
    /\ WrSucceeded
    /\ ~wr.before.ent.positive
    /\ wr.ret > wr.before.ent.btop
    /\ tree.ent.btop = wr.ret
    /\ Materialized(wr.log)

\* the forced copy-up scenario: branch 0 writable, the others read-only, the
\* entry only in branch 1, its parent absent from branch 0, a create
ForcedCopyUp ==
    /\ ~br_ro[0]
    /\ \A b \in Branches \ {0} : br_ro[b]
    /\ wr.before.ent.positive
    /\ Occupied(wr.before.ent) = {1}
    /\ wr.before.ent.btop = 1 /\ wr.before.ent.bbot = 1
    /\ wr.before.par = {1}
    /\ wr.args.force < 0 /\ wr.args.src < 0
    /\ WrLeafLooked

\* C8 as stated: a successful au_wr_dir that returns another branch than the
\* entry's top leaves the branch inside the entry's range, for positive and
\* negative entries alike
C8_Original ==
    /\ WrSucceeded /\ wr.ret # wr.before.ent.btop =>
          wr.ret \in tree.ent.btop..tree.ent.bbot
    /\ WrSucceeded /\ ForcedCopyUp =>
          wr.ret = 0 /\ 0 \in tree.par /\ tree.ent.btop = 0

\* C8: a successful au_wr_dir that returns another branch than the entry's
\* top leaves the branch inside the range of a negative entry, and of a
\* positive one when the leaf was looked up there (ADD_ENTRY without
\* TMPFILE); the range of a positive entry is otherwise what it was.  In the
\* forced copy-up scenario the parent is made in branch 0 and the top is 0.
C8_RangeIncludesReturned ==
    /\ WrSucceeded /\ wr.ret # wr.before.ent.btop =>
          /\ ~wr.before.ent.positive \/ WrLeafLooked =>
                wr.ret \in tree.ent.btop..tree.ent.bbot
          /\ wr.before.ent.positive /\ ~WrLeafLooked =>
                SameRange(tree.ent, wr.before.ent)
    /\ WrSucceeded /\ ForcedCopyUp =>
          wr.ret = 0 /\ 0 \in tree.par /\ tree.ent.btop = 0

C8_Witness ==
    /\ WrSucceeded /\ ForcedCopyUp
    /\ wr.calls = 1
    /\ Materialized(wr.log)
    /\ tree.ent.btop = 0 /\ tree.ent.bbot = 1

\* C9: once a call has made the ancestors in the branch and succeeded, the
\* same call again runs neither au_cpup_dirs nor au_cpdown_dirs, makes no
\* directory, leaves the range as it is and returns the same branch
C9_IdempotentCopyUp ==
    WrReturned /\ wr.calls > 1 /\ wr.prev.copied =>
        /\ wr.ret = wr.prev.ret
        /\ ~Materialized(wr.log)
        /\ \A i \in 1..Len(wr.log) : wr.log[i] # "mkdir"
        /\ tree.gp = wr.before.gp /\ tree.par = wr.before.par
        /\ SameRange(tree.ent, wr.before.ent)

\* the second call went through au_wr_dir_cpup and found the parent there
C9_Witness ==
    /\ WrReturned /\ wr.calls > 1 /\ wr.prev.copied
    /\ wr.ret # wr.before.ent.btop
    /\ wr.ret \in wr.before.par

\* ------------------------------------------- aufs_permission, aufs_lookup
MAY_EXEC == "MAY_EXEC"
MAY_WRITE == "MAY_WRITE"
MAY_READ == "MAY_READ"
MAY_APPEND == "MAY_APPEND"
MAY_NOT_BLOCK == "MAY_NOT_BLOCK"
Masks ==
    (SUBSET {MAY_READ, MAY_WRITE, MAY_EXEC})
    \cup {{MAY_APPEND}, {MAY_READ, MAY_NOT_BLOCK}}

\* What a branch holds of the inode: nothing, or a real inode that is
\*   "ok"         of the inode's type, every access granted,
\*   "immutable"  of the inode's type, IS_IMMUTABLE,
\*   "noexec"     of the inode's type, without execute bits or on a noexec mount,
\*   "denied"     of the inode's type, refused by the branch's own check,
\*   "wrongtype"  of another type than the inode.
RealInodes == {"ok", "immutable", "noexec", "denied", "wrongtype"}
InodeKinds == {"dir", "reg", "chr"}

au_ibtop(i) == i.ibtop
au_ibbot(i) == i.ibbot
au_h_iptr(i, b) == i.h[b]
S_ISDIR(i) == i.kind = "dir"
special_file(i) == i.kind = "chr"
SameType(i, b) == i.h[b] # "wrongtype"
au_br_rdonly(ro, b) == ro[b]
au_br_writable(ro, b) == ~ro[b]
WriteMask(mask) == mask \cap {MAY_WRITE, MAY_APPEND} # {}

\* h_permission on the real inode the branch holds, which is of the inode's type
h_permission(i, b, mask, ro) ==
    IF WriteMask(mask) /\ i.h[b] = "immutable" THEN -EPERM
    ELSE IF MAY_EXEC \in mask /\ i.kind = "reg" /\ i.h[b] = "noexec" THEN -EACCES
    ELSE IF i.h[b] = "denied" THEN -EACCES
    ELSE 0

\* a check that looks for a writable branch at the top index only
PermTop_toponly(i, mask, ro) ==
    IF au_h_iptr(i, au_ibtop(i)) = "none" \/ ~SameType(i, au_ibtop(i))
    THEN [err |-> au_busy_or_stale, consulted |-> <<>>]
    ELSE [err |-> IF /\ WriteMask(mask)
                     /\ h_permission(i, au_ibtop(i), mask, ro) = 0
                     /\ ~special_file(i)
                  THEN IF ~au_br_rdonly(ro, au_ibtop(i)) THEN 0 ELSE -EROFS
                  ELSE h_permission(i, au_ibtop(i), mask, ro),
          consulted |-> <<au_ibtop(i)>>]

\* aufs_permission, a non-directory or a write: the top branch alone, then
\* the search for a writable branch
PermTop(i, mask, ro) ==
    IF au_h_iptr(i, au_ibtop(i)) = "none" \/ ~SameType(i, au_ibtop(i))
    THEN [err |-> au_busy_or_stale, consulted |-> <<>>]
    ELSE [err |-> IF /\ WriteMask(mask)
                     /\ h_permission(i, au_ibtop(i), mask, ro) = 0
                     /\ ~special_file(i)
                  THEN IF \E b \in 0..au_ibtop(i) : ~au_br_rdonly(ro, b)
                       THEN 0 ELSE -EROFS
                  ELSE h_permission(i, au_ibtop(i), mask, ro),
          consulted |-> <<au_ibtop(i)>>]

\* a loop that takes a branch of the range without a real inode for a failure
RECURSIVE PermDirLoop_gapfails(_, _, _, _, _)
PermDirLoop_gapfails(i, mask, ro, bindex, acc) ==
    IF acc.err # 0 \/ bindex > au_ibbot(i) THEN acc
    ELSE IF au_h_iptr(i, bindex) = "none" \/ ~SameType(i, bindex)
    THEN [err |-> au_busy_or_stale, consulted |-> Append(acc.consulted, bindex)]
    ELSE PermDirLoop_gapfails(i, mask, ro, bindex + 1,
                              [err |-> h_permission(i, bindex, mask, ro),
                               consulted |-> Append(acc.consulted, bindex)])

\* a loop over the directory's branches that stops after the top one
RECURSIVE PermDirLoop_toponly(_, _, _, _, _)
PermDirLoop_toponly(i, mask, ro, bindex, acc) ==
    IF bindex > au_ibtop(i) THEN acc
    ELSE [err |-> IF SameType(i, bindex) THEN h_permission(i, bindex, mask, ro)
                  ELSE au_busy_or_stale,
          consulted |-> <<bindex>>]

\* aufs_permission, a directory that is not written: the loop over its
\* branches from bindex on; acc is the error so far and the branches whose
\* real inode was looked at
RECURSIVE PermDirLoop(_, _, _, _, _)
PermDirLoop(i, mask, ro, bindex, acc) ==
    IF acc.err # 0 \/ bindex > au_ibbot(i) THEN acc
    ELSE IF au_h_iptr(i, bindex) = "none"
    THEN PermDirLoop(i, mask, ro, bindex + 1, acc)
    ELSE IF ~SameType(i, bindex)
    THEN [err |-> au_busy_or_stale, consulted |-> Append(acc.consulted, bindex)]
    ELSE PermDirLoop(i, mask, ro, bindex + 1,
                     [err |-> h_permission(i, bindex, mask, ro),
                      consulted |-> Append(acc.consulted, bindex)])

\* aufs_permission; gen is the superblock's generation, which the code
\* compiled in does not compare with the inode's
aufs_permission(i, mask, ro, gen) ==
    IF MAY_NOT_BLOCK \in mask THEN [err |-> -ECHILD, consulted |-> <<>>]
    ELSE IF ~S_ISDIR(i) \/ WriteMask(mask) THEN PermTop(i, mask, ro)
    ELSE PermDirLoop(i, mask, ro, au_ibtop(i), [err |-> 0, consulted |-> <<>>])

\* au_digen_test(parent, sigen): an error when the generations differ
au_digen_test(d, gen) == IF d.digen = gen THEN 0 ELSE -EIO

\* what the outside can make fail in one aufs_lookup
LookupFails ==
    {"none", "LOOKUP_RCU", "namelen", "si_read_lock", "au_di_init",
     "au_alive_dir", "au_lkup_dentry", "au_new_inode", "d_splice_alias"}

\* aufs_lookup, from the lookup in the branches on; npositive is its result
LookupFound(fail, npositive, head) ==
    IF npositive < 0
    THEN [ret |-> npositive, log |-> head \o <<"di_write_unlock", "si_read_unlock">>]
    ELSE IF npositive > 0 /\ fail = "au_new_inode"
    THEN [ret |-> -ENOMEM,
          log |-> head \o <<"au_new_inode", "di_write_unlock", "si_read_unlock">>]
    ELSE IF npositive > 0
    THEN [ret |-> IF fail = "d_splice_alias" THEN -ENOMEM ELSE 0,
          log |-> head \o <<"au_new_inode", "d_splice_alias">>
                  \o (IF fail = "d_splice_alias" THEN <<"ii_write_unlock", "iput">>
                      ELSE <<"iput">>)
                  \o <<"di_write_unlock", "si_read_unlock">>]
    ELSE [ret |-> IF fail = "d_splice_alias" THEN -ENOMEM ELSE 0,
          log |-> head \o <<"d_splice_alias", "di_write_unlock", "si_read_unlock">>]

\* aufs_lookup, the parent read-locked: e is what au_alive_dir and
\* au_digen_test say of it
LookupInParent(e, fail, npositive, head) ==
    IF e # 0
    THEN [ret |-> e,
          log |-> head \o <<"di_read_unlock", "di_write_unlock", "si_read_unlock">>]
    ELSE LookupFound(fail,
                     IF fail = "au_lkup_dentry" THEN -EIO ELSE npositive,
                     head \o <<"au_lkup_dentry", "di_read_unlock">>)

\* aufs_lookup in the parent directory d
aufs_lookup(d, gen, fail, npositive) ==
    IF fail = "LOOKUP_RCU" THEN [ret |-> -ECHILD, log |-> <<>>]
    ELSE IF fail = "namelen" THEN [ret |-> -ENAMETOOLONG, log |-> <<>>]
    ELSE IF fail = "si_read_lock" THEN [ret |-> -EAGAIN, log |-> <<"si_read_lock">>]
    ELSE IF fail = "au_di_init"
    THEN [ret |-> -ENOMEM, log |-> <<"si_read_lock", "au_di_init", "si_read_unlock">>]
    ELSE IF fail = "au_alive_dir"
    THEN LookupInParent(-ENOENT, fail, npositive,
                        <<"si_read_lock", "au_di_init", "di_read_lock_parent",
                          "au_alive_dir">>)
    ELSE LookupInParent(au_digen_test(d, gen), fail, npositive,
                        <<"si_read_lock", "au_di_init", "di_read_lock_parent",
                          "au_alive_dir", "au_digen_test">>)

NoOp == [name |-> "none"]

\* the branches change: the superblock's generation goes up, what the inodes
\* and entries have cached stays until it is refreshed
BranchChange ==
    /\ op = NoOp
    /\ sigen < MaxGen
    /\ sigen' = sigen + 1
    /\ UNCHANGED <<ino, pdir, op, pinVars, wrVars, shimVars>>

\* the inode and the parent are refreshed to the current generation
Refresh ==
    /\ op = NoOp
    /\ ino.iigen # sigen \/ pdir.digen # sigen
    /\ ino' = [ino EXCEPT !.iigen = sigen]
    /\ pdir' = [pdir EXCEPT !.digen = sigen]
    /\ UNCHANGED <<sigen, op, pinVars, wrVars, shimVars>>

Permission ==
    /\ op = NoOp
    /\ \E mask \in Masks :
         \E r \in {aufs_permission(ino, mask, br_ro, sigen)} :
            op' = [name |-> "aufs_permission", mask |-> mask, ret |-> r.err,
                   consulted |-> r.consulted, stale |-> ino.iigen # sigen]
    /\ UNCHANGED <<sigen, ino, pdir, pinVars, wrVars, shimVars>>

Lookup ==
    /\ op = NoOp
    /\ \E fail \in LookupFails, npositive \in {0, 1} :
         \E r \in {aufs_lookup(pdir, sigen, fail, npositive)} :
            op' = [name |-> "aufs_lookup", ret |-> r.ret, log |-> r.log,
                   stale |-> pdir.digen # sigen]
    /\ UNCHANGED <<sigen, ino, pdir, pinVars, wrVars, shimVars>>

\* the inodes a lookup builds: real inodes in some branches, the range from
\* the first of them to the last
Inodes ==
    {i \in [kind : InodeKinds, ibtop : Branches, ibbot : Branches,
            h : [Branches -> RealInodes \cup {"none"}], iigen : {0}] :
        /\ i.ibtop <= i.ibbot
        /\ i.h[i.ibtop] # "none" /\ i.h[i.ibbot] # "none"
        /\ \A b \in Branches : b < i.ibtop \/ b > i.ibbot => i.h[b] = "none"}

InitPerm ==
    /\ PinIdle
    /\ br_ro \in [Branches -> BOOLEAN]
    /\ tree = <<>>
    /\ wr = <<>>
    /\ sigen = 0
    /\ ino \in Inodes
    /\ pdir = [digen |-> 0]
    /\ op = NoOp
    /\ ShimIdle

NextPerm ==
    \/ BranchChange
    \/ Refresh
    \/ Permission
    \/ Lookup

SpecPerm == InitPerm /\ [][NextPerm]_vars

\* ------------------------------------------ claims on the inode operations
\* C6: an operation on an inode or a parent whose generation is not the
\* superblock's returns an error and looks at no real object: aufs_permission
\* consults no branch, aufs_lookup does not look the name up in the branches
C6_StaleDetected ==
    /\ op.name = "aufs_permission" /\ op.stale =>
          op.ret < 0 /\ op.consulted = <<>>
    /\ op.name = "aufs_lookup" /\ op.stale =>
          op.ret < 0 /\ \A k \in 1..Len(op.log) : op.log[k] # "au_lkup_dentry"

\* the permission asked is a read of a directory
DirRead ==
    /\ op.name = "aufs_permission"
    /\ S_ISDIR(ino)
    /\ ~WriteMask(op.mask)
    /\ MAY_NOT_BLOCK \notin op.mask

\* the branches of the range that hold a real inode
Present == {b \in au_ibtop(ino)..au_ibbot(ino) : au_h_iptr(ino, b) # "none"}

\* the check of one branch: busy or stale when the real inode is no directory
BranchCheck(b) ==
    IF SameType(ino, b) THEN h_permission(ino, b, op.mask, br_ro)
    ELSE au_busy_or_stale

\* C10: a read of a directory is granted only if the check of every branch
\* of the range that holds a real inode succeeds; the branches are taken in
\* ascending order without leaving one out, the first failure ends the walk
\* and is what is returned; a directory in branches 0 to 2 whose branch 1
\* denies the read is denied
C10_DirReadAllBranches ==
    DirRead =>
        /\ op.ret = 0 <=> \A b \in Present : BranchCheck(b) = 0
        /\ \A k \in 1..Len(op.consulted) - 1 : op.consulted[k] < op.consulted[k + 1]
        /\ \A k \in 1..Len(op.consulted) - 1 : BranchCheck(op.consulted[k]) = 0
        /\ Len(op.consulted) > 0
        /\ {op.consulted[k] : k \in 1..Len(op.consulted)} =
              {b \in Present : b <= op.consulted[Len(op.consulted)]}
        /\ op.ret = BranchCheck(op.consulted[Len(op.consulted)])
        /\ op.ret = 0 => op.consulted[Len(op.consulted)] = au_ibbot(ino)
        /\ Present = 0..2 /\ ino.h[1] = "denied" => op.ret # 0

\* the directory in branches 0 to 2 whose branch 1 denies: the walk ends there
C10_Witness ==
    /\ DirRead
    /\ op.mask = {MAY_READ}
    /\ au_ibtop(ino) = 0 /\ au_ibbot(ino) = 2
    /\ ino.h[0] = "ok" /\ ino.h[1] = "denied" /\ ino.h[2] = "ok"
    /\ op.ret = -EACCES
    /\ op.consulted = <<0, 1>>

\* the directory of the scenario: range 0 to 2, real inodes in 0 and 2 only
GapDir ==
    /\ DirRead
    /\ au_ibtop(ino) = 0 /\ au_ibbot(ino) = 2
    /\ Present = {0, 2}

\* C11 as stated: a read of a directory whose range is 0 to 2 and which has
\* no real inode in branch 1 is refused
C11_Original == GapDir => op.ret # 0

\* C11: a read of a directory whose range is 0 to 2 and which has no real
\* inode in branch 1 passes over branch 1: it is granted exactly when the
\* checks of branches 0 and 2 both succeed, and branch 1 is never looked at
C11_GapIsSkipped ==
    GapDir =>
        /\ op.ret = 0 <=> BranchCheck(0) = 0 /\ BranchCheck(2) = 0
        /\ \A k \in 1..Len(op.consulted) : op.consulted[k] # 1
        /\ BranchCheck(0) = 0 => op.consulted = <<0, 2>>

C11_Witness ==
    /\ GapDir
    /\ op.mask = {MAY_READ}
    /\ ino.h[0] = "ok" /\ ino.h[2] = "ok"
    /\ op.ret = 0
    /\ op.consulted = <<0, 2>>

\* the permission asked is decided at the top branch
TopOnly ==
    /\ op.name = "aufs_permission"
    /\ MAY_NOT_BLOCK \notin op.mask
    /\ ~S_ISDIR(ino) \/ WriteMask(op.mask)

\* the real inode of the top branch is there, of the inode's type, and its
\* own check grants the access
TopGrants ==
    /\ au_h_iptr(ino, au_ibtop(ino)) # "none"
    /\ SameType(ino, au_ibtop(ino))
    /\ h_permission(ino, au_ibtop(ino), op.mask, br_ro) = 0

\* C12: for a non-directory, or a write to a directory, the real check is
\* made at the top branch only; a write that the top branch grants to an
\* object that is no special file gets the read-only-filesystem error exactly
\* when no branch from the top one down to 0 is writable, and succeeds
\* otherwise; for a special file the top branch's answer is the result
C12_TopBranchThenWritable ==
    TopOnly =>
        /\ \A k \in 1..Len(op.consulted) : op.consulted[k] = au_ibtop(ino)
        /\ Len(op.consulted) <= 1
        /\ TopGrants /\ WriteMask(op.mask) /\ ~special_file(ino) =>
              /\ op.ret = -EROFS <=> \A b \in 0..au_ibtop(ino) : br_ro[b]
              /\ op.ret \in {0, -EROFS}
        /\ TopGrants /\ special_file(ino) => op.ret = 0
        /\ TopGrants /\ ~WriteMask(op.mask) => op.ret = 0
        /\ ~TopGrants => op.ret # 0

\* a write the top branch grants, refused because branches 0 and 1 are
\* read-only
C12_Witness ==
    /\ TopOnly
    /\ ino.kind = "reg"
    /\ op.mask = {MAY_WRITE}
    /\ au_ibtop(ino) = 1
    /\ TopGrants
    /\ br_ro[0] /\ br_ro[1]
    /\ op.ret = -EROFS

\* ---------------------------------------- more claims on the resolver
WrCalled == wr.pc # "ready"
WrForced == WrCalled /\ wr.args.force >= 0
WrLogHas(names) == \E k \in 1..Len(wr.log) : wr.log[k] \in names
PolicyEvents == {"AuWbrCreate", "AuWbrCreate(DIR)", "AuWbrCopyup"}

WrFree == WrCalled /\ wr.args.force < 0
WrWithSrc == WrFree /\ wr.args.src >= 0
WrCreating == wr.args.flags \cap {AuWrDir_ADD_ENTRY, AuWrDir_TMPFILE} # {}
CreateEvents == {"AuWbrCreate", "AuWbrCreate(DIR)"}
\* the lesser of the entry's top before the call and the source's top
MinTop ==
    IF wr.args.src <= wr.before.ent.btop THEN wr.args.src ELSE wr.before.ent.btop

\* C14: without a forced branch and with a source entry, the candidate is
\* the lesser of the entry's top and the source's top: when that branch is
\* writable no fallback is made and a success returns it, so the result
\* exceeds neither top; the source's top is used only when strictly
\* shallower than the entry's
C14_SourceTopIsUpperBound ==
    WrWithSrc =>
        /\ wr.log[2] = "au_dbtop(src)"
        /\ ~br_ro[MinTop] =>
              /\ ~WrLogHas({"AuWbrCopyup"})
              /\ WrSucceeded => wr.ret = MinTop
              /\ WrSucceeded => wr.ret <= wr.args.src /\ wr.ret <= wr.before.ent.btop
        /\ br_ro[MinTop] => WrLogHas({"AuWbrCopyup"})
        /\ wr.args.src >= wr.before.ent.btop /\ ~br_ro[wr.before.ent.btop] =>
              wr.ret = wr.before.ent.btop /\ tree = wr.before

\* the source's top is shallower and writable: the entry goes there
C14_Witness ==
    /\ WrWithSrc
    /\ wr.args.src < wr.before.ent.btop
    /\ ~br_ro[wr.args.src]
    /\ WrSucceeded
    /\ wr.ret = wr.args.src

\* C15 as stated: without a forced branch, a call that creates an entry asks
\* the create policy, with or without a source entry, and the answer is the
\* candidate
C15_Original ==
    WrFree /\ WrCreating =>
        /\ WrLogHas(CreateEvents)
        /\ AuWrDir_ISDIR \in wr.args.flags <=> WrLogHas({"AuWbrCreate(DIR)"})

\* C15: without a forced branch and without a source entry, a call that
\* creates an entry asks the create policy; its answer is the candidate, and
\* the directory flag is passed exactly when the new entry is a directory.
\* With a source entry, or when no entry is created, the create policy is
\* not asked.
C15_CreatePolicy ==
    /\ WrFree /\ WrCreating /\ wr.args.src < 0 =>
          /\ wr.log[2] = (IF AuWrDir_ISDIR \in wr.args.flags
                          THEN "AuWbrCreate(DIR)" ELSE "AuWbrCreate")
          /\ wr.args.create >= 0 /\ ~br_ro[wr.args.create] =>
                /\ ~WrLogHas({"AuWbrCopyup"})
                /\ WrSucceeded => wr.ret = wr.args.create
    /\ WrCalled /\ ~(WrFree /\ WrCreating /\ wr.args.src < 0) =>
          ~WrLogHas(CreateEvents)

\* the create policy is asked for a directory and its branch is returned
C15_Witness ==
    /\ WrFree /\ WrCreating /\ wr.args.src < 0
    /\ AuWrDir_ISDIR \in wr.args.flags
    /\ WrLogHas({"AuWbrCreate(DIR)"})
    /\ WrSucceeded
    /\ wr.ret = wr.args.create
    /\ wr.ret # wr.before.ent.btop

\* the branch au_wr_dir has before the read-only fallback
WrCandidate ==
    IF wr.args.src >= 0 THEN MinTop
    ELSE IF WrCreating THEN wr.args.create
    ELSE wr.before.ent.btop

WrFallback == WrCandidate < 0 \/ br_ro[WrCandidate]

\* C16: without a forced branch the copy-up policy is asked exactly when the
\* candidate is an error or read-only; its answer, which depends on the
\* entry's top and the branches only, is then the target, and its error is
\* returned as it is; a success returns the writable candidate or that answer
C16_CopyupFallback ==
    WrFree =>
        /\ WrFallback <=> WrLogHas({"AuWbrCopyup"})
        /\ WrFallback /\ WrSucceeded =>
              wr.ret = AuWbrCopyup(br_ro, wr.before.ent.btop)
        /\ WrFallback /\ AuWbrCopyup(br_ro, wr.before.ent.btop) < 0 =>
              wr.ret = AuWbrCopyup(br_ro, wr.before.ent.btop)
        /\ ~WrFallback /\ WrSucceeded => wr.ret = WrCandidate
        /\ WrSucceeded => ~br_ro[wr.ret]

\* the create policy's branch is read-only and the copy-up policy's is used
C16_Witness ==
    /\ WrFree /\ WrCreating /\ wr.args.src < 0
    /\ wr.args.create >= 0 /\ br_ro[wr.args.create]
    /\ WrLogHas({"AuWbrCopyup"})
    /\ WrSucceeded
    /\ wr.ret # wr.args.create
    /\ wr.ret # wr.before.ent.btop

WrFailed == WrReturned /\ wr.ret < 0
WrLogCount(name) == Cardinality({k \in 1..Len(wr.log) : wr.log[k] = name})

\* C17: a failing au_wr_dir returns the error of the step that failed,
\* unchanged: the copy-up policy's when it finds no writable branch, the
\* copy routine's when an ancestor cannot be made.  The entry's range and
\* real dentries are what they were, and the ancestors made before the
\* failure stay in the branch.
C17_ErrorsLeaveEntry ==
    WrFailed =>
        /\ tree.ent = wr.before.ent
        /\ wr.before.gp \subseteq tree.gp /\ wr.before.par \subseteq tree.par
        /\ ~WrLogHas({"IMustLock", "di_write_lock_parent"}) =>
              /\ wr.ret = AuWbrCopyup(br_ro, wr.before.ent.btop)
              /\ wr.ret = -EROFS
              /\ tree = wr.before
        /\ Materialized(wr.log) /\ wr.args.fail_at = 1 =>
              wr.ret = -ENOSPC /\ tree = wr.before
        /\ Materialized(wr.log) /\ wr.args.fail_at = 2 /\ WrLogHas({"mkdir"})
           /\ ~WrLogHas({"au_lkup_neg"}) =>
              /\ wr.ret = -ENOSPC
              /\ tree.par = wr.before.par
              /\ Cardinality(tree.gp) = Cardinality(wr.before.gp) + 1

\* the copy fails at the parent: the ancestor made before it stays
C17_Witness ==
    /\ WrFailed
    /\ wr.ret = -ENOSPC
    /\ Materialized(wr.log)
    /\ tree.gp # wr.before.gp
    /\ tree.par = wr.before.par
    /\ tree.ent = wr.before.ent

\* the branch chosen is the entry's top
WrFastPath == WrSucceeded /\ wr.ret = wr.before.ent.btop

\* the simple create: branch 0 writable, the others read-only, the name
\* nowhere, the parent in branch 0
SimpleCreate ==
    /\ WrCalled
    /\ ~br_ro[0]
    /\ \A b \in Branches \ {0} : br_ro[b]
    /\ ~wr.before.ent.positive
    /\ wr.before.ent.btop = 0 /\ wr.before.ent.bbot = 0
    /\ 0 \in wr.before.par
    /\ wr.args.force < 0 /\ wr.args.src < 0
    /\ AuWrDir_ADD_ENTRY \in wr.args.flags

\* C18: when the branch chosen is the entry's top, au_wr_dir returns it with
\* no copy-up and no copy-down, without the parent's lock that the copy step
\* takes (a read lock taken around the copy-up policy is released again), and
\* with the entry and its ancestors as they were; the simple create returns
\* branch 0 with no copy-up and the range 0 to 0
C18_FastPath ==
    /\ WrFastPath =>
          /\ tree = wr.before
          /\ ~Materialized(wr.log)
          /\ ~WrLogHas({"di_write_lock_parent", "IMustLock", "au_lkup_neg",
                        "mkdir", "inode_lock_shared_nested"})
          /\ WrLogCount("di_read_lock_parent") = WrLogCount("di_read_unlock")
          /\ wr.log[Len(wr.log)] = "dput"
    /\ SimpleCreate =>
          /\ wr.pc = "returned" /\ wr.ret = 0
          /\ ~Materialized(wr.log)
          /\ tree.ent.btop = 0 /\ tree.ent.bbot = 0
          /\ tree = wr.before

C18_Witness ==
    /\ SimpleCreate
    /\ WrFastPath
    /\ wr.ret = 0
    /\ wr.args.create = 0
    /\ wr.log = <<"dget_parent", "AuWbrCreate", "dput">>

\* ---------------------------------------------------- vfsub_* functions
\* A call in progress: path->dentry, the saved leaf d, the error so far, the
\* extra references held on the leaf and its inode, and the calls made, each
\* with the value path->dentry had when it was made.
Leaves == Targets \ {"root"}
d_parent(d) == <<"parent", d>>

ShimStart(leaf) ==
    [dentry |-> leaf, d |-> leaf, err |-> 0, dref |-> 0, iref |-> 0, log |-> <<>>]
Ev(c, name) == [c EXCEPT !.log = Append(@, <<name, c.dentry>>)]
SaveD(c) == [c EXCEPT !.d = c.dentry]
ToParent(c) == [c EXCEPT !.dentry = d_parent(c.d)]
RestoreD(c) == [c EXCEPT !.dentry = c.d]
\* security_path_*(path, d, ...) and vfs_*(..., path->dentry, ...): res is
\* what the callee returns
SecurityHook(c, name, res) == [Ev(c, name) EXCEPT !.err = res]
VfsOp(c, name, res) == [Ev(c, name) EXCEPT !.err = res]

\* d = path->dentry; path->dentry = d->d_parent; err = hook; path->dentry = d
Hooked(c, name, res) == RestoreD(SecurityHook(ToParent(SaveD(c)), name, res))

CreateOp(c, in) == IF c.err # 0 THEN c ELSE VfsOp(c, "vfs_create", in.real)
vfsub_create(c, in) ==
    CreateOp(Hooked(Ev(c, "IMustLock"), "security_path_mknod", in.hook), in)

au_test_nlink(in) == IF in.nlink_max THEN -EMLINK ELSE 0
LinkOp(c, in) == IF c.err # 0 THEN c ELSE VfsOp(c, "vfs_link", in.real)
vfsub_link(c, in) ==
    IF au_test_nlink(in) # 0
    THEN [Ev(c, "IMustLock") EXCEPT !.err = au_test_nlink(in)]
    ELSE LinkOp(Hooked(Ev(c, "IMustLock"), "security_path_link", in.hook), in)

MkdirOp(c, in) == IF c.err # 0 THEN c ELSE VfsOp(c, "vfs_mkdir", in.real)
vfsub_mkdir(c, in) ==
    MkdirOp(Hooked(Ev(c, "IMustLock"), "security_path_mkdir", in.hook), in)

RmdirOp(c, in) == IF c.err # 0 THEN c ELSE VfsOp(c, "vfs_rmdir", in.real)
vfsub_rmdir(c, in) ==
    RmdirOp(Hooked(Ev(c, "IMustLock"), "security_path_rmdir", in.hook), in)

\* call_unlink: the references around vfs_unlink
UnlinkDget(c, in) ==
    IF in.stop_sillyrename THEN c ELSE [Ev(c, "dget") EXCEPT !.dref = @ + 1]
UnlinkIhold(c, in) ==
    IF in.positive THEN [Ev(c, "ihold") EXCEPT !.iref = @ + 1] ELSE c
UnlinkDput(c, in) ==
    IF in.stop_sillyrename THEN c ELSE [Ev(c, "dput") EXCEPT !.dref = @ - 1]
UnlinkIput(c, in) ==
    IF in.positive THEN [Ev(c, "iput") EXCEPT !.iref = @ - 1] ELSE c
UnlinkOp(c, in) ==
    IF c.err # 0 THEN c
    ELSE UnlinkIput(UnlinkDput(VfsOp(UnlinkIhold(UnlinkDget(c, in), in),
                                     "vfs_unlink", in.real), in), in)

\* a worker that returns on the hook's refusal before it restores the path
call_unlink_norestore(c, in) ==
    IF in.hook # 0
    THEN SecurityHook(ToParent(SaveD(Ev(c, "IMustLock"))),
                      "security_path_unlink", in.hook)
    ELSE UnlinkOp(Hooked(Ev(c, "IMustLock"), "security_path_unlink", in.hook), in)

call_unlink(c, in) ==
    UnlinkOp(Hooked(Ev(c, "IMustLock"), "security_path_unlink", in.hook), in)

\* an unlink made in the caller's context when the work queue refuses it
vfsub_unlink_direct(c, in) ==
    IF ~in.force THEN call_unlink(c, in)
    ELSE IF in.wkq_err # 0
    THEN [call_unlink(Ev(c, "au_wkq_wait"), in) EXCEPT !.err = in.wkq_err]
    ELSE call_unlink(Ev(c, "au_wkq_wait"), in)

\* vfsub_unlink: au_wkq_wait runs call_unlink and returns 0, or fails
vfsub_unlink(c, in) ==
    IF ~in.force THEN call_unlink(c, in)
    ELSE IF in.wkq_err # 0 THEN [Ev(c, "au_wkq_wait") EXCEPT !.err = in.wkq_err]
    ELSE call_unlink(Ev(c, "au_wkq_wait"), in)

\* what the callees answer in one call; the fields a function does not read
\* are left at a fixed value
ShimInputs ==
    [hook : {0, -EACCES}, real : {0, -ENOSPC}, nlink_max : BOOLEAN,
     stop_sillyrename : BOOLEAN, positive : BOOLEAN, force : BOOLEAN,
     wkq_err : {0, -ENOMEM}]
PlainInputs ==
    {in \in ShimInputs : /\ ~in.nlink_max /\ ~in.stop_sillyrename /\ ~in.positive
                         /\ ~in.force /\ in.wkq_err = 0}
LinkInputs ==
    {in \in ShimInputs : /\ ~in.stop_sillyrename /\ ~in.positive
                         /\ ~in.force /\ in.wkq_err = 0}
UnlinkInputs ==
    {in \in ShimInputs : ~in.nlink_max /\ (in.wkq_err # 0 => in.force)}

ShimDone(name, in, c) ==
    [calls |-> shim.calls + 1, name |-> name, in |-> in, res |-> c]

VfsubCreate ==
    /\ shim.calls < MaxShimCalls
    /\ \E leaf \in Leaves, in \in PlainInputs :
          shim' = ShimDone("vfsub_create", in, vfsub_create(ShimStart(leaf), in))
    /\ UNCHANGED <<pinVars, wrVars, permVars>>
VfsubLink ==
    /\ shim.calls < MaxShimCalls
    /\ \E leaf \in Leaves, in \in LinkInputs :
          shim' = ShimDone("vfsub_link", in, vfsub_link(ShimStart(leaf), in))
    /\ UNCHANGED <<pinVars, wrVars, permVars>>
VfsubMkdir ==
    /\ shim.calls < MaxShimCalls
    /\ \E leaf \in Leaves, in \in PlainInputs :
          shim' = ShimDone("vfsub_mkdir", in, vfsub_mkdir(ShimStart(leaf), in))
    /\ UNCHANGED <<pinVars, wrVars, permVars>>
VfsubRmdir ==
    /\ shim.calls < MaxShimCalls
    /\ \E leaf \in Leaves, in \in PlainInputs :
          shim' = ShimDone("vfsub_rmdir", in, vfsub_rmdir(ShimStart(leaf), in))
    /\ UNCHANGED <<pinVars, wrVars, permVars>>
VfsubUnlink ==
    /\ shim.calls < MaxShimCalls
    /\ \E leaf \in Leaves, in \in UnlinkInputs :
          shim' = ShimDone("vfsub_unlink", in, vfsub_unlink(ShimStart(leaf), in))
    /\ UNCHANGED <<pinVars, wrVars, permVars>>

InitShim ==
    /\ PinIdle
    /\ WrIdle
    /\ PermIdle
    /\ shim = [calls |-> 0, name |-> "none", in |-> <<>>, res |-> ShimStart("e1")]

NextShim ==
    \/ VfsubCreate
    \/ VfsubLink
    \/ VfsubMkdir
    \/ VfsubRmdir
    \/ VfsubUnlink

SpecShim == InitShim /\ [][NextShim]_vars

\* ------------------------------------------- claims on the vfsub_* functions
HookNames ==
    {"security_path_mknod", "security_path_link", "security_path_mkdir",
     "security_path_rmdir", "security_path_unlink"}
RealNames == {"vfs_create", "vfs_link", "vfs_mkdir", "vfs_rmdir", "vfs_unlink"}
ShimCalled == shim.calls > 0
ShimLog == shim.res.log
HookAt(k) == ShimLog[k][1] \in HookNames
RealAt(k) == ShimLog[k][1] \in RealNames
\* the call got as far as the security hook
ShimHooked ==
    /\ ShimCalled
    /\ ~(shim.name = "vfsub_link" /\ shim.in.nlink_max)
    /\ ~(shim.name = "vfsub_unlink" /\ shim.in.force /\ shim.in.wkq_err # 0)

\* C19: in each of vfsub_create, vfsub_link, vfsub_mkdir, vfsub_rmdir and
\* the unlink worker the real operation is made only after the security hook,
\* and only if the hook allowed it; a refusal of the hook is what the
\* function returns; the hook sees path->dentry set to the parent, the real
\* operation and the caller see the leaf again
C19_HookBeforeRealOp ==
    ShimCalled =>
        /\ \A k \in 1..Len(ShimLog) : RealAt(k) =>
              /\ \E j \in 1..(k - 1) : HookAt(j)
              /\ shim.in.hook = 0
              /\ ShimLog[k][2] = shim.res.d
        /\ \A k \in 1..Len(ShimLog) : HookAt(k) =>
              ShimLog[k][2] = d_parent(shim.res.d)
        /\ ShimHooked => \E k \in 1..Len(ShimLog) : HookAt(k)
        /\ ShimHooked /\ shim.in.hook # 0 =>
              /\ shim.res.err = shim.in.hook
              /\ \A k \in 1..Len(ShimLog) : ~RealAt(k)
        /\ ShimHooked /\ shim.in.hook = 0 =>
              /\ shim.res.err = shim.in.real
              /\ \E k \in 1..Len(ShimLog) : RealAt(k)
        /\ shim.res.dentry = shim.res.d

\* the unlink worker refused by the hook: no vfs_unlink, the leaf is back
C19_Witness ==
    /\ ShimCalled
    /\ shim.name = "vfsub_unlink"
    /\ shim.in.hook = -EACCES
    /\ shim.res.err = -EACCES
    /\ shim.res.dentry = shim.res.d
    /\ \E k \in 1..Len(ShimLog) :
          ShimLog[k] = <<"security_path_unlink", d_parent(shim.res.d)>>

\* ------------------------------------------------ more claims on the pins
\* the pin in progress is of the root and au_do_pin has returned
RootPinEnded(t) ==
    /\ Running(t)
    /\ IS_ROOT(Top(t).dentry)
    /\ pc[t] \in {"pinned", "failed"}

\* C20: au_do_pin on the root takes no logical parent lock, no parent
\* reference and no real parent inode lock; it asks for the branch's mount
\* write-lease when MNT_WRITE is set and for nothing else, succeeds when the
\* lease is granted or not asked for, and when the lease is refused clears
\* MNT_WRITE and fails with the task holding what it held before
C20_RootPin ==
    \A t \in Tasks :
        RootPinEnded(t) =>
            LET p == Top(t)
                h == Holdings(t, Kernel)
            IN  /\ h.di = p.before.di
                /\ h.dc = p.before.dc
                /\ h.ic = p.before.ic
                /\ h.il = p.before.il
                /\ p.parent = NULL /\ p.hdir = NoHandle
                /\ \A k \in 1..Len(p.log) : p.log[k] = "mnt_want_write"
                /\ pc[t] = "pinned" =>
                      /\ err[t] = 0
                      /\ p.log = (IF AuPin_MNT_WRITE \in p.flags
                                  THEN <<"mnt_want_write">> ELSE <<>>)
                      /\ h.mnt = [b \in Branches |->
                                    p.before.mnt[b]
                                    + (IF AuPin_MNT_WRITE \in p.flags /\ b = p.bindex
                                       THEN 1 ELSE 0)]
                /\ pc[t] = "failed" =>
                      /\ err[t] = au_busy_or_stale
                      /\ p.step = "mnt"
                      /\ AuPin_MNT_WRITE \notin p.flags
                      /\ p.log = <<>>
                      /\ h = p.before

\* the lease is refused to a pin of the root
C20_Witness ==
    \E t \in Tasks :
        /\ RootPinEnded(t)
        /\ pc[t] = "failed"
        /\ Top(t).step = "mnt"
        /\ AuPin_MNT_WRITE \notin Top(t).flags

\* the order of the steps of au_do_pin
DoPinRank(where) ==
    IF where = "resolve" THEN 1
    ELSE IF where = "mnt" THEN 2
    ELSE IF where = "lock" THEN 3
    ELSE 4

PinLogCount(p, name) == Cardinality({k \in 1..Len(p.log) : p.log[k] = name})

\* what au_do_pin may call, each at most once
DoPinEvents ==
    {"dget", "di_read_lock", "mnt_want_write", "igrab", "inode_lock"}

\* C23: au_do_pin goes through its steps in order and never back: a step
\* that ran is not run again in the same call, a failed call stays failed
\* until the caller gives the pin up, each acquisition is made at most once,
\* and the call returns 0 on success and the busy/stale code on every
\* failure, a refused mount write-lease included
C23_NoRetry ==
    /\ [](\A t \in Tasks :
            (Running(t) /\ pc[t] \in {"pinned", "failed"}) =>
                /\ \A n \in DoPinEvents : PinLogCount(Top(t), n) <= 1
                /\ err[t] \in {0, au_busy_or_stale}
                /\ pc[t] = "pinned" <=> err[t] = 0)
    /\ [][\A t \in Tasks :
            /\ (pc[t] \in {"resolve", "mnt", "lock"}
                /\ <<pins[t], pc[t]>>' # <<pins[t], pc[t]>>) =>
                  DoPinRank(pc'[t]) > DoPinRank(pc[t])
            /\ pc[t] = "failed" => pc'[t] \in {"failed", "unpinned"}]_vars

\* the lease is refused to a pin below the root that took the logical
\* parent's lock itself
C23_Witness ==
    \E t \in Tasks :
        /\ pc[t] = "failed"
        /\ err[t] = au_busy_or_stale
        /\ Top(t).step = "mnt"
        /\ NonRoot(t)
        /\ PinLogCount(Top(t), "di_read_lock") = 1
        /\ PinLogCount(Top(t), "di_read_unlock") = 1

\* the real parent's lock as the task would leave au_pin_hdir_lock now
HdirLockNow(t) == au_pin_hdir_lock(t, St(t), hd_inode_ok, hd_moved)

\* C25: au_pin_hdir_lock and au_pin_hdir_relock return with the real
\* parent's lock held by the caller whenever the pin has a real parent
\* handle, whatever they return (the cached inode no longer linked, the
\* verification failed, a pinned real dentry without a link left); without
\* a handle they return 0 and lock nothing; the lock is given back only
\* when the holder calls au_pin_hdir_unlock or au_unpin
C25_LockKeptOnError ==
    /\ [](\A t \in Tasks :
            /\ (pc[t] = "lock" /\ i_rwsem[Top(t).hdir].owner = NoTask) =>
                  HdirLockNow(t).st.k.il[Top(t).hdir].owner = t
            /\ (pc[t] = "unlocked" /\ Top(t).hdir = NoHandle) =>
                  HdirLockNow(t) = [st |-> St(t), err |-> 0])
    /\ [][\A t \in Tasks :
            /\ (pc[t] = "unlocked" /\ pc'[t] = "pinned") =>
                  IF Top(t).hdir # NoHandle
                  THEN i_rwsem'[Top(t).hdir].owner = t
                  ELSE err'[t] = 0 /\ i_rwsem' = i_rwsem
            /\ \A h \in Handles :
                  (i_rwsem[h].owner = t /\ i_rwsem'[h].owner # t) =>
                      /\ pc[t] = "pinned"
                      /\ pc'[t] \in {"unlocked", "unpinned"}]_vars

\* a relock that found the pinned real dentry without a link left and
\* returned with the lock held
C25_Witness ==
    \E t \in Tasks :
        /\ pc[t] = "pinned"
        /\ NonRoot(t)
        /\ err[t] = 1
        /\ Unlocks(Top(t)) = 1
        /\ i_rwsem[Top(t).hdir].owner = t

\* the pin the task released last went through au_unpin
Unpinned(t) ==
    \E k \in 1..Len(donePin[t].log) : donePin[t].log[k] = "unpin"

\* C26: au_unpin, called a second time on a pin or called on a pin whose
\* au_do_pin failed, unlocks no lock the task does not hold, drops no mount
\* write-lease it does not hold, drops no reference it does not hold and
\* follows no NULL pointer
C26_ReleaseOnlyHeld ==
    \A t \in Tasks : Unpinned(t) => oops = {}

\* the second au_unpin of a root pin drops the lease once more
C26_RootLeaseTwice ==
    \E t \in Tasks :
        /\ Unpinned(t)
        /\ IS_ROOT(donePin[t].dentry)
        /\ donePin[t].err = 0
        /\ "mnt_drop_write" \in oops

\* au_unpin after a refused lease unlocks the real parent nobody locked
C26_UnlockAfterRefusal ==
    \E t \in Tasks :
        /\ Unpinned(t)
        /\ donePin[t].step = "mnt"
        /\ ~IS_ROOT(donePin[t].dentry)
        /\ "inode_unlock_unheld" \in oops

\* ------------------------------------------------ more claims on the shims
ShimLogCount(name) == Cardinality({k \in 1..Len(ShimLog) : ShimLog[k][1] = name})
ShimLogAt(name) == CHOOSE k \in 1..Len(ShimLog) : ShimLog[k][1] = name
UnlinkCalled == ShimCalled /\ shim.name = "vfsub_unlink"
\* the work queue refused the unlink
WkqFailed == shim.in.force /\ shim.in.wkq_err # 0

\* C24: a call of vfsub_unlink makes the real unlink at most once: without
\* force in the caller's context, with force after the work queue took it;
\* when the queue refuses, its error is returned and neither the hook nor
\* the unlink runs; otherwise the caller gets the hook's refusal, or else
\* the status of the unlink; the dentry and inode references taken around
\* the unlink are dropped again before the return
C24_UnlinkOnce ==
    UnlinkCalled =>
        /\ ShimLogCount("vfs_unlink") <= 1
        /\ ShimLogCount("au_wkq_wait") = (IF shim.in.force THEN 1 ELSE 0)
        /\ (shim.in.force /\ ShimLogCount("vfs_unlink") = 1) =>
              ShimLogAt("au_wkq_wait") < ShimLogAt("vfs_unlink")
        /\ WkqFailed =>
              /\ shim.res.err = shim.in.wkq_err
              /\ ShimLogCount("vfs_unlink") = 0
              /\ ShimLogCount("security_path_unlink") = 0
        /\ ~WkqFailed =>
              /\ ShimLogCount("vfs_unlink") = (IF shim.in.hook = 0 THEN 1 ELSE 0)
              /\ shim.res.err = (IF shim.in.hook # 0 THEN shim.in.hook
                                 ELSE shim.in.real)
        /\ shim.res.dref = 0 /\ shim.res.iref = 0
        /\ ShimLogCount("dget") = ShimLogCount("dput")
        /\ ShimLogCount("ihold") = ShimLogCount("iput")
        /\ ShimLogCount("vfs_unlink") = 1 =>
              /\ ShimLogCount("dget") = (IF shim.in.stop_sillyrename THEN 0 ELSE 1)
              /\ ShimLogCount("ihold") = (IF shim.in.positive THEN 1 ELSE 0)

\* a forced unlink of a positive dentry that the work queue ran and that
\* failed in the branch, with both references taken and dropped
C24_Witness ==
    /\ UnlinkCalled
    /\ shim.in.force /\ shim.in.wkq_err = 0
    /\ ShimLogCount("vfs_unlink") = 1
    /\ shim.res.err = -ENOSPC
    /\ ShimLogCount("dput") = 1 /\ ShimLogCount("iput") = 1

\* ------------------------------------------- more claims on the resolver
\* the call reached au_wr_dir_cpup
WrCopyStep == WrCalled /\ WrLogHas({"IMustLock", "di_write_lock_parent"})
\* the branch au_wr_dir chose in the call
WrTarget == WrDirTarget(br_ro, wr.before.ent, wr.args).b
\* the parent had no real directory in the chosen branch
WrParentLacks == WrTarget \notin wr.before.par
\* BUG() of au_wr_dir_cpup: the call trace goes on after it
WrCpupBug == \E k \in 1..(Len(wr.log) - 1) : wr.log[k] = "BUG"

\* C21: a call of the copy step runs the upward routine exactly when the
\* parent lacks the chosen branch and the entry's top is greater than it,
\* the downward one exactly when the parent lacks it and the top is smaller,
\* each at most once and never both; the copy step is never entered with the
\* chosen branch equal to the entry's top, so its BUG() is never met
C21_OneDirection ==
    WrCalled =>
        /\ WrLogCount("au_cpup_dirs") + WrLogCount("au_cpdown_dirs") <= 1
        /\ WrLogHas({"au_cpup_dirs"}) <=>
              (WrCopyStep /\ WrParentLacks /\ wr.before.ent.btop > WrTarget)
        /\ WrLogHas({"au_cpdown_dirs"}) <=>
              (WrCopyStep /\ WrParentLacks /\ wr.before.ent.btop < WrTarget)
        /\ WrCopyStep => WrTarget # wr.before.ent.btop
        /\ ~WrCpupBug

\* the downward routine ran for a branch below the entry's top
C21_Witness ==
    /\ WrCalled
    /\ WrLogHas({"au_cpdown_dirs"})
    /\ wr.before.ent.btop < WrTarget

\* the events of the leaf step of au_wr_dir_cpup
LeafEvents == {"inode_lock_shared_nested", "au_lkup_neg", "inode_unlock_shared"}
\* the position in the call trace of the only event of that name
WrLogAt(name) == CHOOSE k \in 1..Len(wr.log) : wr.log[k] = name

\* C22: in a call that reaches the copy step, with TMPFILE the missing
\* ancestors are made and the leaf step is left out: no negative lookup, no
\* shared lock of the real parent.  With ADD_ENTRY and without TMPFILE the
\* leaf is looked up once, under the shared lock, unless making the ancestors
\* failed; the closing assertion never fires and a success leaves the entry
\* with a real dentry in the branch returned.
C22_TmpfileSkipsLeaf ==
    WrCopyStep =>
        /\ AuWrDir_TMPFILE \in wr.args.flags =>
              /\ ~WrLogHas(LeafEvents)
              /\ Materialized(wr.log) <=> WrParentLacks
              /\ WrSucceeded => wr.ret \in tree.par
        /\ (AuWrDir_ADD_ENTRY \in wr.args.flags
            /\ AuWrDir_TMPFILE \notin wr.args.flags) =>
              /\ wr.ret # -ENOSPC =>
                    /\ \A n \in LeafEvents : WrLogCount(n) = 1
                    /\ WrLogAt("inode_lock_shared_nested") < WrLogAt("au_lkup_neg")
                    /\ WrLogAt("au_lkup_neg") < WrLogAt("inode_unlock_shared")
              /\ wr.ret = -ENOSPC => ~WrLogHas(LeafEvents)
              /\ wr.pc # "oops"
              /\ WrSucceeded => au_h_dptr(tree.ent, wr.ret) # "none"

\* a tmpfile creation that made the parent in the branch and succeeded with
\* no real dentry of the entry there
C22_Witness ==
    /\ WrCopyStep
    /\ WrSucceeded
    /\ AuWrDir_TMPFILE \in wr.args.flags
    /\ Materialized(wr.log)
    /\ au_h_dptr(tree.ent, wr.ret) = "none"

\* how often the event was made before position k of the call trace
WrCountBefore(k, name) ==
    Cardinality({j \in 1..(k - 1) : wr.log[j] = name})
\* the locks au_wr_dir and au_wr_dir_cpup take: the event that takes each
\* and the event that gives it back
WrLockPairs ==
    {<<"di_read_lock_parent", "di_read_unlock">>,
     <<"di_write_lock_parent", "di_write_unlock">>,
     <<"inode_lock_shared_nested", "inode_unlock_shared">>}
ParentLockEvents ==
    {"di_read_lock_parent", "di_read_unlock", "di_write_lock_parent",
     "di_write_unlock"}

\* C27: when au_wr_dir returns, with a branch, with the policy's error or
\* with the copy step's, every lock it took is given back and the parent
\* reference taken at its start is dropped as its last act; the parent's
\* write lock is asked for only when the read lock taken around the copy-up
\* policy is given back; a call that creates an entry takes neither lock of
\* the logical parent, and one that does not, for an entry below the root,
\* takes the read lock exactly around the copy-up policy
C27_LockDiscipline ==
    WrReturned =>
        /\ \A pr \in WrLockPairs : WrLogCount(pr[1]) = WrLogCount(pr[2])
        /\ WrLogCount("dget_parent") = 1 /\ WrLogCount("dput") = 1
        /\ wr.log[1] = "dget_parent" /\ wr.log[Len(wr.log)] = "dput"
        /\ \A k \in 1..Len(wr.log) :
              wr.log[k] = "di_write_lock_parent" =>
                  WrCountBefore(k, "di_read_lock_parent")
                      = WrCountBefore(k, "di_read_unlock")
        /\ WrCreating =>
              /\ ~WrLogHas(ParentLockEvents)
              /\ WrCopyStep => WrLogHas({"IMustLock"})
        /\ ~WrCreating =>
              /\ WrLogCount("di_read_lock_parent")
                    = WrLogCount("AuWbrCopyup")
              /\ \A k \in 1..Len(wr.log) :
                    wr.log[k] = "AuWbrCopyup" =>
                        /\ wr.log[k - 1] = "di_read_lock_parent"
                        /\ wr.log[k + 1] = "di_read_unlock"

\* a call that creates nothing, asked the copy-up policy under the read
\* lock, took the write lock for the copy step and failed there
C27_Witness ==
    /\ WrReturned
    /\ ~WrCreating
    /\ wr.ret = -ENOSPC
    /\ WrLogHas({"di_read_lock_parent"})
    /\ WrLogHas({"di_write_lock_parent"})

====
